---- MODULE Spec2Model ----
(***************************************************************************)
(* Worker runtime of the TacoQ Python client SDK                           *)
(* (client_sdks/python/tacoq/worker/client.py) together with the part of   *)
(* the broker (RabbitMQ, AMQP 0-9-1) the runtime observes: one worker      *)
(* queue, per-channel prefetch, manual ack / nack.                         *)
(*                                                                         *)
(* One WorkerApplication is modelled.  Its coroutines are processes:       *)
(*   - entrypoint (connect, _listen loop, _cleanup)   : variable entry     *)
(*   - one _execute_task_assignment task per delivery : variable unit      *)
(*   - one fire-and-forget publish_task_running task  : variable running   *)
(* A step of a process runs from one await that suspends to the next.      *)
(***************************************************************************)
EXTENDS Integers, FiniteSets, Sequences, TLC

\* ---------------------------------------------------------------- bounds
MaxMsgs == 2            \* assignments the publisher may publish
MaxTags == 2            \* deliveries (delivery tags) the broker may hand out
MaxPrefetch == 2        \* largest broker_prefetch_count tried
MaxSessions == 3        \* HTTP sessions a relay client may create
MaxPolls == 3           \* relay queries one PublisherClient.get_task call may make
MaxLen == 2             \* code points of a str and bytes of a bytes object handed to a codec
MaxItems == 2           \* items of a dict handed to a codec
MaxCalls == 2           \* publish_task calls made on one PublisherBrokerClient

MsgIds == 1..MaxMsgs
Tags == 1..MaxTags

\* task kinds a publisher may name; None is the absent dictionary entry
Kinds == {"k1", "k2"}
None == "None"

\* _registered_tasks when entrypoint is called: the application registered a
\* handler for kind k1 and none for kind k2.
RegisteredAtStartup == [k \in Kinds |-> IF k = "k1" THEN "h1" ELSE None]

\* PublisherClient.publish_task(..., priority: int = 0); priorities published
\* in the runs that explore priority
DefaultPriority == 0
Priorities == {0, 1}

\* The worker kind of the worker modelled, with the names the clients derive
\* from it: WORKER_ROUTING_KEY.format(worker_kind=...) and
\* f"{worker_kind}_cloned"; RELAY_QUEUE and RELAY_ROUTING_KEY.
WorkerKind == "w1"
WorkerRoutingKey == "tasks.w1"
ClonedQueueName == "w1_cloned"
RelayQueueName == "relay_queue"
RelayRoutingKey == "#"

\* Queue bindings on task_exchange once a publisher has connected and
\* published for the worker kind: BaseBrokerClient.connect binds relay_queue,
\* _declare_worker_queue binds the worker queue and its clone.
Bindings == {<<RelayQueueName, RelayRoutingKey>>,
             <<WorkerKind, WorkerRoutingKey>>,
             <<ClonedQueueName, WorkerRoutingKey>>}

\* Topic exchange: "#" matches every routing key; a pattern without
\* wildcards matches only itself.
Matches(pattern, key) == pattern = "#" \/ pattern = key

\* queues a message published with this routing key is copied to
Route(key) == {b[1] : b \in {c \in Bindings : Matches(c[2], key)}}

\* Type hints a task function may carry.  NoHint is a missing annotation
\* (type_hints.get(...) returns None).
NoHint == "NoHint"
Types == {"bytes", "str", "dict", "Dict[str, Any]", "MyModel", "int", "Optional[str]"}

\* inspect.isclass: typing constructs such as Dict[str, Any] or Optional[str]
\* are not classes.
isclass(T) == T \in {"bytes", "str", "dict", "MyModel", "int"}

\* `data_type is dict or get_origin(data_type) is dict`
is_dict(T) == T \in {"dict", "Dict[str, Any]"}

\* MyModel is the one subclass of pydantic.BaseModel among the types.
is_BaseModel_subclass(T) == T = "MyModel"

\* task functions an application registers: name, hint of the first
\* parameter, hint of the return value
TaskFunctions ==
    {[name |-> "h1", in |-> "bytes",          out |-> "bytes"],
     [name |-> "h2", in |-> "str",            out |-> "dict"],
     [name |-> "h3", in |-> "Dict[str, Any]", out |-> "MyModel"],
     [name |-> "h4", in |-> "MyModel",        out |-> "Dict[str, Any]"],
     [name |-> "h5", in |-> NoHint,           out |-> "bytes"],
     [name |-> "h6", in |-> "bytes",          out |-> NoHint],
     [name |-> "h7", in |-> "int",            out |-> "str"],
     [name |-> "h8", in |-> "str",            out |-> "int"],
     [name |-> "h9", in |-> "Optional[str]",  out |-> "str"],
     [name |-> "h10", in |-> "str",           out |-> "Optional[str]"]}

\* explicit codecs an application may pass to register_task (None: infer)
ExplicitDecoders == {None, "CustomDecoder"}
ExplicitEncoders == {None, "CustomEncoder"}

\* input_decoder / output_encoder of the TaskHandler stored for a kind
NoCodecs == [input_decoder |-> None, output_encoder |-> None]

\* arguments of a register_task call; NoCall before the first call
NoCall == [kind |-> None, task |-> [name |-> None, in |-> NoHint, out |-> NoHint],
           input_decoder |-> None, output_encoder |-> None]

\* what TaskHandler.execute can do for one delivery
Outcomes == {"ok", "decode_error", "handler_exception", "encode_error"}

\* An exception is its class name and its str(); NoException is "no exception".
NoException == [cls |-> "None", msg |-> "None"]

\* exceptions a task function raises in the runs explored
HandlerExceptions == {[cls |-> "RuntimeError", msg |-> "boom"],
                      [cls |-> "ValueError", msg |-> ""]}

\* EncodingError as the built-in decoders and encoders raise it
DecodeError == [cls |-> "EncodingError", msg |-> "Error decoding message"]
EncodeError == [cls |-> "EncodingError", msg |-> "Error encoding message"]

\* Bytes are modelled by what they hold: raw output of an encoder, or the
\* UTF-8 text of a JSON object with its keys and the values of type / message.
NoData == [fmt |-> "None", keys |-> {}, type |-> "", message |-> ""]
RawOutput == [fmt |-> "raw", keys |-> {}, type |-> "", message |-> ""]

VARIABLES
    registered_tasks,         \* WorkerApplication._registered_tasks : kind -> handler | None
    handler_codecs,           \* kind -> input_decoder / output_encoder of its TaskHandler
    register_call,            \* arguments of the last register_task call
    register_error,           \* exception the last register_task call raised (None: it returned)
    prefetch_count,           \* config.broker_prefetch_count
    entry,                    \* position of the entrypoint coroutine
    connection,               \* broker connection of _broker_client: none | open | closed
    shutdown_event,           \* WorkerApplication._shutdown_event
    shutdown_complete_event,  \* WorkerApplication._shutdown_complete_event
    listen_error,             \* an exception of _listen waits to be re-raised after the finally block
    active_tasks,             \* WorkerApplication._active_tasks (delivery tags of the units)
    gathered,                 \* the tasks asyncio.gather was called with in _cleanup
    unit,                     \* tag -> position of its _execute_task_assignment task
    running,                  \* tag -> its background publish_task_running task: none | pending | done
    completed,                \* tag -> state of its publish_task_completed call
    is_error,                 \* tag -> local is_error of the unit (FALSE once it has finished)
    handler_invoked,          \* tag -> the unit has called the task function (FALSE once it has finished)
    exception,                \* tag -> the exception `e` the unit caught from execute (None if none)
    output_data,              \* tag -> local `result` / output_data of the unit (None before execute and once it has finished)
    nack_requeue,             \* tag -> none | requeue | drop : how the delivery was nacked
    acked,                    \* tags whose delivery was acked
    broker_ops,               \* <<tag, op>> : broker operations the worker attempted
    emitted,                  \* tag -> lifecycle events the unit emitted, in program order
    inflight_at_shutdown,     \* _active_tasks at the moment issue_shutdown was called
    msg_kind,                 \* message -> task_kind (None while unpublished)
    msg_priority,             \* message -> AMQP priority its publisher gives it
    relay_queue,              \* messages enqueued in relay_queue
    cloned_queue,             \* messages enqueued in the queue <worker_kind>_cloned
    queue,                    \* messages ready in the worker queue at the broker
    tag_msg,                  \* tag -> message it delivers (0 while unused)
    unacked,                  \* tags delivered on the channel and neither acked nor nacked
    client_class,             \* class of the broker client under test: PublisherBrokerClient | WorkerBrokerClient
    test_mode,                \* BrokerConfig.test_mode of that client
    client_connection,        \* BaseBrokerClient._connection: None | open | closed
    task_exchange,            \* BaseBrokerClient._channel and ._task_exchange are set
    binded_worker_queues,     \* PublisherBrokerClient._binded_worker_queues
    client_queue,             \* WorkerBrokerClient._queue is set
    call,                     \* last call on the broker client: operation, exception raised, broker operations sent
    result_queues,            \* queues that hold a message published by publish_task_result
    relay_session,            \* RelayClient._session: 0 (None) or the ClientSession it holds
    sessions,                 \* ClientSession -> unborn | open | closed
    relay_call,               \* last call on the relay client: operation, statuses received, result
    reload,                   \* argument `reload` of ApplicationRunner.startup
    runner,                   \* position of ApplicationRunner.startup
    runner_shutdown_event,    \* ApplicationRunner._shutdown_event
    received,                 \* signal -> position of entrypoint when the process received it (None: not received)
    reload_loop,              \* position of the _run_with_reload task
    reload_task,              \* the watch_and_reload task: none | watching | True | False | cancelled
    app_task,                 \* the task running app.entrypoint: none | created
    imports,                  \* calls of import_from_string made by _run_with_reload
    retry_until_complete,     \* argument of the current PublisherClient.get_task call
    poll,                     \* position of PublisherClient.get_task: idle | query | sleep | returned | raised
    polls,                    \* relay queries the current PublisherClient.get_task call has made
    polled_task,              \* local `task` of PublisherClient.get_task: None or the status of the record
    data_type,                \* type given to create_encoder / create_decoder, "None" for a codec built directly
    codec_pair,               \* the encoder and the decoder in use
    original_data,            \* the value handed to encode
    encoded_data,             \* what encode returned or raised
    decoded_data,             \* what decode returned or raised
    pbc,                      \* a PublisherBrokerClient shared by overlapping calls: _connection, _channel, _task_exchange, _binded_worker_queues
    publish_call,             \* call -> position and worker kind of a PublisherBrokerClient.publish_task call
    amqp                      \* what the broker has seen: connections opened, queue declarations, bindings and publishes per worker kind

vars == <<registered_tasks, handler_codecs, register_call, register_error,
          prefetch_count, entry, connection,
          shutdown_event, shutdown_complete_event, listen_error,
          active_tasks, gathered, unit, running, completed, is_error,
          handler_invoked, exception, output_data, nack_requeue, acked, broker_ops, emitted,
          inflight_at_shutdown, msg_kind, msg_priority, relay_queue, cloned_queue,
          queue, tag_msg, unacked,
          client_class, test_mode, client_connection, task_exchange,
          binded_worker_queues, client_queue, call, result_queues,
          relay_session, sessions, relay_call,
          reload, runner, runner_shutdown_event, received, reload_loop, reload_task,
          app_task, imports, retry_until_complete, poll, polls, polled_task,
          data_type, codec_pair, original_data, encoded_data, decoded_data,
          pbc, publish_call, amqp>>

\* groups used in UNCHANGED clauses
appVars == <<registered_tasks, handler_codecs, register_call, register_error,
            prefetch_count>>
entryVars == <<entry, connection, listen_error, gathered>>
unitVars == <<unit, running, completed, is_error, handler_invoked, exception,
              output_data, nack_requeue, acked, broker_ops, emitted, active_tasks>>
brokerVars == <<msg_kind, queue, tag_msg, unacked>>
fanoutVars == <<msg_priority, relay_queue, cloned_queue>>
flagVars == <<shutdown_event, shutdown_complete_event, inflight_at_shutdown>>
clientVars == <<client_class, test_mode, client_connection, task_exchange,
                binded_worker_queues, client_queue, call, result_queues>>
relayVars == <<relay_session, sessions, relay_call>>
runnerVars == <<reload, runner, runner_shutdown_event, received, reload_loop, reload_task,
                app_task, imports>>
publisherVars == <<retry_until_complete, poll, polls, polled_task>>
codecVars == <<data_type, codec_pair, original_data, encoded_data, decoded_data>>
pbcVars == <<pbc, publish_call, amqp>>
libVars == <<clientVars, relayVars, runnerVars, publisherVars, codecVars, pbcVars>>

\* terminal positions of a unit
Terminal == {"ACK", "REJECT_PERMANENT", "FAIL_DELIVERY", "CANCELLED"}

\* WorkerApplication.__init__ and the class-level defaults, without the registry
RuntimeInit ==
    /\ entry = "idle"
    /\ connection = "none"
    /\ shutdown_event = FALSE
    /\ shutdown_complete_event = FALSE
    /\ listen_error = FALSE
    /\ active_tasks = {}
    /\ gathered = {}
    /\ unit = [t \in Tags |-> "none"]
    /\ running = [t \in Tags |-> "none"]
    /\ completed = [t \in Tags |-> "none"]
    /\ is_error = [t \in Tags |-> FALSE]
    /\ handler_invoked = [t \in Tags |-> FALSE]
    /\ exception = [t \in Tags |-> NoException]
    /\ output_data = [t \in Tags |-> NoData]
    /\ nack_requeue = [t \in Tags |-> "none"]
    /\ acked = {}
    /\ broker_ops = {}
    /\ emitted = [t \in Tags |-> <<>>]
    /\ inflight_at_shutdown = {}
    /\ msg_kind = [m \in MsgIds |-> None]
    /\ relay_queue = {}
    /\ cloned_queue = {}
    /\ queue = {}
    /\ tag_msg = [t \in Tags |-> 0]
    /\ unacked = {}

NoClientCall == [op |-> None, error |-> None, sent |-> {}]

\* BaseBrokerClient class-level defaults; the client is a PublisherBrokerClient
\* with the default configuration
ClientInit ==
    /\ client_class = "PublisherBrokerClient"
    /\ test_mode = FALSE
    /\ client_connection = None
    /\ task_exchange = FALSE
    /\ binded_worker_queues = {}
    /\ client_queue = FALSE
    /\ call = NoClientCall
    /\ result_queues = {}

\* ClientSession objects a RelayClient may create
SessionIds == 1..MaxSessions

NoRelayCall == [op |-> None, seen |-> <<>>, result |-> None]

\* RelayClient as constructed: _session = None
RelayInit ==
    /\ relay_session = 0
    /\ sessions = [i \in SessionIds |-> "unborn"]
    /\ relay_call = NoRelayCall

\* signals ApplicationRunner._handle_signals installs a handler for
Signals == {"SIGTERM", "SIGINT"}

\* ApplicationRunner.__init__; the runner is not in reload mode
RunnerInit ==
    /\ reload = FALSE
    /\ runner = "init"
    /\ runner_shutdown_event = FALSE
    /\ received = [sig \in Signals |-> None]
    /\ reload_loop = "none"
    /\ reload_task = "none"
    /\ app_task = "none"
    /\ imports = 0

\* PublisherClient with no get_task call in progress
PublisherInit ==
    /\ retry_until_complete = FALSE
    /\ poll = "idle"
    /\ polls = 0
    /\ polled_task = "None"

\* an exception raised instead of a value; NoValue: nothing computed yet
PyRaised(cls) == [k |-> cls, v |-> <<>>]
NoValue == [k |-> "absent", v |-> <<>>]

\* the encoder and decoder of one codec; NoCodecPair before any is chosen
CodecPair(encoder, decoder) == [encoder |-> encoder, decoder |-> decoder]
NoCodecPair == CodecPair("None", "None")

\* nothing encoded yet
CodecInit ==
    /\ data_type = "None"
    /\ codec_pair = NoCodecPair
    /\ original_data = NoValue
    /\ encoded_data = NoValue
    /\ decoded_data = NoValue

\* publish_task calls on the shared PublisherBrokerClient and the worker
\* kinds they publish to
Calls == 1..MaxCalls
PublishKinds == {"w1", "w2"}

\* a PublisherBrokerClient as constructed, no call made, a broker that has
\* seen nothing.  Connections are numbered in the order they are opened; a
\* channel and an exchange object carry the number of their connection; 0 is
\* None.
PbcInit ==
    /\ pbc = [connection |-> 0, channel |-> 0, task_exchange |-> 0, binded |-> {}]
    /\ publish_call = [c \in Calls |-> [pc |-> "none", kind |-> "None"]]
    /\ amqp = [connections |-> 0,
               declared |-> [k \in PublishKinds |-> 0],
               bound |-> [k \in PublishKinds |-> 0],
               published |-> [k \in PublishKinds |-> 0]]

\* the components beside the worker runtime, as constructed
LibInit == ClientInit /\ RelayInit /\ RunnerInit /\ PublisherInit /\ CodecInit /\ PbcInit

\* The worker when entrypoint is called: the application has registered task
\* function h1 (bytes -> bytes, codecs inferred) for kind k1.
Init ==
    /\ registered_tasks = RegisteredAtStartup
    /\ handler_codecs = [k \in Kinds |-> IF k = "k1"
                                         THEN [input_decoder |-> "PassthroughDecoder",
                                               output_encoder |-> "PassthroughEncoder"]
                                         ELSE NoCodecs]
    /\ register_call = [kind |-> "k1", task |-> [name |-> "h1", in |-> "bytes", out |-> "bytes"],
                        input_decoder |-> None, output_encoder |-> None]
    /\ register_error = None
    /\ prefetch_count \in 1..MaxPrefetch
    /\ msg_priority = [m \in MsgIds |-> DefaultPriority]
    /\ RuntimeInit
    /\ LibInit

\* ------------------------------------------------------------ publisher side

\* PublisherBrokerClient.publish_task seen from the worker queue: the
\* assignment, whose id is fresh, becomes ready in the queue of the worker kind.
NextMsg == IF \E m \in MsgIds : msg_kind[m] = None
           THEN CHOOSE m \in MsgIds : msg_kind[m] = None /\ \A n \in 1..(m-1) : msg_kind[n] # None
           ELSE 0

publish_task(kind) ==
    /\ NextMsg # 0
    /\ msg_kind' = [msg_kind EXCEPT ![NextMsg] = kind]
    /\ queue' = IF WorkerKind \in Route(WorkerRoutingKey)
                THEN queue \cup {NextMsg} ELSE queue
    /\ relay_queue' = IF RelayQueueName \in Route(WorkerRoutingKey)
                      THEN relay_queue \cup {NextMsg} ELSE relay_queue
    /\ cloned_queue' = IF ClonedQueueName \in Route(WorkerRoutingKey)
                       THEN cloned_queue \cup {NextMsg} ELSE cloned_queue
    /\ UNCHANGED <<libVars, appVars, msg_priority, entryVars, unitVars, flagVars, tag_msg, unacked>>

\* ------------------------------------------------------------ entrypoint

\* entrypoint -> _init_broker_client: WorkerBrokerClient.connect under
\* tenacity's @retry (no stop condition).  A failed attempt is logged,
\* re-raised to the decorator and retried after the exponential wait.
init_broker_client_once(ok) ==
    /\ entry \in {"idle", "connect"}
    /\ IF ok
       THEN /\ connection' = "open"
            /\ entry' = "check"
       ELSE /\ entry' = "raised"
            /\ UNCHANGED connection
    /\ UNCHANGED <<libVars, appVars, fanoutVars, listen_error, gathered, unitVars, flagVars, brokerVars>>

init_broker_client(ok) ==
    /\ entry \in {"idle", "connect"}
    /\ IF ok
       THEN /\ connection' = "open"
            /\ entry' = "check"
       ELSE /\ entry' = "connect"
            /\ UNCHANGED connection
    /\ UNCHANGED <<libVars, appVars, fanoutVars, listen_error, gathered, unitVars, flagVars, brokerVars>>

\* `while not self._shutdown_event.is_set()` at the top of the _listen loop.
\* When the flag is set _listen returns, entrypoint's finally block calls
\* _cleanup, and _cleanup hands the current _active_tasks to asyncio.gather.
listen_check ==
    /\ entry = "check"
    /\ IF shutdown_event
       THEN /\ entry' = "gather"
            /\ gathered' = active_tasks
       ELSE /\ entry' = "pull"
            /\ UNCHANGED gathered
    /\ UNCHANGED <<libVars, appVars, fanoutVars, connection, listen_error, unitVars, flagVars, brokerVars>>

\* The channel QoS set by WorkerBrokerClient.connect (prefetch_count, global):
\* the broker hands out a delivery only while fewer than prefetch_count
\* deliveries are unacknowledged on the channel.
PrefetchIgnored == TRUE
PrefetchAllows == Cardinality(unacked) < prefetch_count

\* The worker queue is declared with x-max-priority and each message carries
\* priority = task.priority: the broker hands out a message of the highest
\* priority among those ready in the queue.
AnyWaiting(m) == TRUE
HighestPriorityWaiting(m) == \A n \in queue : msg_priority[n] <= msg_priority[m]

NextTag == IF \E t \in Tags : tag_msg[t] = 0
           THEN CHOOSE t \in Tags : tag_msg[t] = 0 /\ \A s \in 1..(t-1) : tag_msg[s] # 0
           ELSE 0

\* The pull of _listen returns a delivery: the unit is created with
\* asyncio.create_task and added to _active_tasks; the loop does not await it.
listen_dispatch_awaiting(m) ==
    /\ entry = "pull"
    /\ connection = "open"
    /\ active_tasks = {}
    /\ m \in queue
    /\ HighestPriorityWaiting(m)
    /\ PrefetchAllows
    /\ NextTag # 0
    /\ queue' = queue \ {m}
    /\ tag_msg' = [tag_msg EXCEPT ![NextTag] = m]
    /\ unacked' = unacked \cup {NextTag}
    /\ unit' = [unit EXCEPT ![NextTag] = "spawned"]
    /\ active_tasks' = active_tasks \cup {NextTag}
    /\ entry' = "check"
    /\ UNCHANGED <<libVars, appVars, fanoutVars, connection, listen_error, gathered, running, completed,
                   is_error, handler_invoked, exception, output_data, nack_requeue,
                   acked, broker_ops, emitted, flagVars, msg_kind>>

listen_dispatch(m) ==
    /\ entry = "pull"
    /\ connection = "open"
    /\ m \in queue
    /\ HighestPriorityWaiting(m)
    /\ PrefetchAllows
    /\ NextTag # 0
    /\ queue' = queue \ {m}
    /\ tag_msg' = [tag_msg EXCEPT ![NextTag] = m]
    /\ unacked' = unacked \cup {NextTag}
    /\ unit' = [unit EXCEPT ![NextTag] = "spawned"]
    /\ active_tasks' = active_tasks \cup {NextTag}
    /\ entry' = "check"
    /\ UNCHANGED <<libVars, appVars, fanoutVars, connection, listen_error, gathered, running, completed,
                   is_error, handler_invoked, exception, output_data, nack_requeue,
                   acked, broker_ops, emitted, flagVars, msg_kind>>

\* asyncio.wait_for times out after one second: `continue`.
listen_timeout ==
    /\ entry = "pull"
    /\ entry' = "check"
    /\ UNCHANGED <<libVars, appVars, fanoutVars, connection, listen_error, gathered, unitVars, flagVars,
                   brokerVars>>

\* The pull raises something else: logged and re-raised out of _listen; the
\* finally block of entrypoint runs _cleanup before the error leaves entrypoint.
listen_raises ==
    /\ entry = "pull"
    /\ listen_error' = TRUE
    /\ entry' = "gather"
    /\ gathered' = active_tasks
    /\ UNCHANGED <<libVars, appVars, fanoutVars, connection, unitVars, flagVars, brokerVars>>

\* ------------------------------------------------------------ execution unit

TaskKindOf(t) == msg_kind[tag_msg[t]]

\* `self._registered_tasks.get(task_kind)`
task_handler(t) == registered_tasks[TaskKindOf(t)]

\* `if task_handler is None:` decides between the reject branch and execution.
HandlerFoundAlways(t) == TRUE
HandlerFound(t) == task_handler(t) # None

\* `await message.nack()` is called without arguments: aio_pika's
\* IncomingMessage.nack(multiple=False, requeue=True) requeues.
NackWithoutRequeue == FALSE
NackRequeue == TRUE

\* The delivery leaves the channel's unacknowledged set; the broker puts the
\* message back on the worker queue when the nack asks for requeue.
QueueAfterNackDropped(t, requeue) == queue
QueueAfterNack(t, requeue) == IF requeue THEN queue \cup {tag_msg[t]} ELSE queue

\* the reject branch, were it to fall through to the execution after the nack
\* instead of returning
execute_unregistered_continuing(t) ==
    /\ unit[t] = "spawned"
    /\ ~HandlerFound(t)
    /\ nack_requeue' = [nack_requeue EXCEPT ![t] = IF NackRequeue THEN "requeue" ELSE "drop"]
    /\ broker_ops' = broker_ops \cup {<<t, "nack">>}
    /\ unacked' = unacked \ {t}
    /\ queue' = QueueAfterNack(t, NackRequeue)
    /\ unit' = [unit EXCEPT ![t] = "RUN"]
    /\ UNCHANGED <<libVars, appVars, fanoutVars, entryVars, running, completed, is_error, handler_invoked,
                   exception, output_data, acked, emitted, active_tasks, flagVars, msg_kind, tag_msg>>

\* First step of _execute_task_assignment with no handler for the task kind:
\* the error is logged, the delivery is nacked and the unit returns; the done
\* callback discards it from _active_tasks.
execute_unregistered(t) ==
    /\ unit[t] = "spawned"
    /\ ~HandlerFound(t)
    /\ nack_requeue' = [nack_requeue EXCEPT ![t] = IF NackRequeue THEN "requeue" ELSE "drop"]
    /\ broker_ops' = broker_ops \cup {<<t, "nack">>}
    /\ unacked' = unacked \ {t}
    /\ queue' = QueueAfterNack(t, NackRequeue)
    /\ unit' = [unit EXCEPT ![t] = "REJECT_PERMANENT"]
    /\ active_tasks' = active_tasks \ {t}
    /\ UNCHANGED <<libVars, appVars, fanoutVars, entryVars, running, completed, is_error, handler_invoked,
                   exception, output_data, acked, emitted, flagVars, msg_kind, tag_msg>>

\* The locals of a unit that has finished are gone with its frame.
FrameDropped(f, ts) == [t \in Tags |-> IF t \in ts THEN FALSE ELSE f[t]]
LocalsDropped(f, ts, none) == [t \in Tags |-> IF t \in ts THEN none ELSE f[t]]

\* The lifecycle log of a unit once it has handed the TaskRunning publish to
\* asyncio.create_task.
RunningNotEmitted(t) == emitted[t]
EmitRunning(t) == Append(emitted[t], "running")

\* the first step, were the TaskRunning publish awaited by the unit: the unit
\* goes on when the publish returned and ends with its exception otherwise
execute_start_awaiting(t) ==
    /\ unit[t] = "spawned"
    /\ HandlerFound(t)
    /\ emitted' = [emitted EXCEPT ![t] = EmitRunning(t)]
    /\ \E ok \in BOOLEAN :
          /\ running' = [running EXCEPT ![t] = IF ok THEN "done" ELSE "failed"]
          /\ broker_ops' = IF ok THEN broker_ops \cup {<<t, "publish_running">>} ELSE broker_ops
          /\ unit' = [unit EXCEPT ![t] = IF ok THEN "RUN" ELSE "FAIL_DELIVERY"]
          /\ active_tasks' = IF ok THEN active_tasks ELSE active_tasks \ {t}
    /\ UNCHANGED <<libVars, appVars, fanoutVars, entryVars, completed, is_error, handler_invoked,
                   exception, output_data, nack_requeue, acked, flagVars, brokerVars>>

\* First step with a handler: the TaskRunning publish is handed to
\* asyncio.create_task (not awaited) and task_handler.execute is awaited.
execute_start(t) ==
    /\ unit[t] = "spawned"
    /\ HandlerFound(t)
    /\ running' = [running EXCEPT ![t] = "pending"]
    /\ emitted' = [emitted EXCEPT ![t] = EmitRunning(t)]
    /\ unit' = [unit EXCEPT ![t] = "RUN"]
    /\ UNCHANGED <<libVars, appVars, fanoutVars, entryVars, completed, is_error, handler_invoked,
                   exception, output_data, nack_requeue, acked, broker_ops,
                   active_tasks, flagVars, brokerVars>>

\* TaskHandler.execute = decode, call the task function, encode: the
\* exceptions it can raise for each outcome.
Raised(outcome) ==
    CASE outcome = "ok" -> {NoException}
      [] outcome = "decode_error" -> {DecodeError}
      [] outcome = "handler_exception" -> HandlerExceptions
      [] outcome = "encode_error" -> {EncodeError}

\* input_decoder.decode is the first statement of execute: when it raises,
\* task_function is not called.
HandlerCalledAlways(outcome) == TRUE
HandlerCalled(outcome) == outcome # "decode_error"

\* SerializedException.from_exception: type = e.__class__.__name__,
\* message = str(e).
from_exception_base_class(e) == [type |-> "Exception", message |-> e.msg]
from_exception(e) == [type |-> e.cls, message |-> e.msg]

\* json.dumps(exception.model_dump()).encode("utf-8")
json_dumps(d) == [fmt |-> "json-utf8", keys |-> DOMAIN d, type |-> d.type, message |-> d.message]

\* `result` after the try / except Exception around task_handler.execute
ResultOf(e) == IF e = NoException THEN RawOutput ELSE json_dumps(from_exception(e))

\* Awaiting task_handler.execute.  A decode error is raised before the
\* function is called.  Every Exception is caught by the unit and serialized
\* into result; is_error is set.
execute_handler(t, outcome) ==
    /\ unit[t] = "RUN"
    /\ \E e \in Raised(outcome) :
          /\ exception' = [exception EXCEPT ![t] = e]
          /\ output_data' = [output_data EXCEPT ![t] = ResultOf(e)]
          /\ is_error' = [is_error EXCEPT ![t] = (e # NoException)]
    /\ handler_invoked' = [handler_invoked EXCEPT ![t] = HandlerCalled(outcome)]
    /\ unit' = [unit EXCEPT ![t] = "COMPLETE"]
    /\ UNCHANGED <<libVars, appVars, fanoutVars, entryVars, running, completed, nack_requeue, acked,
                   broker_ops, emitted, active_tasks, flagVars, brokerVars>>

\* The background task created by asyncio.create_task runs its first step in
\* the next iteration of the event loop, that is before the unit that created
\* it resumes from an await that suspended it and before its done callbacks run.
RunningTaskUnordered(t) == TRUE
RunningTaskStarted(t) == running[t] # "pending"

\* The background publish_task_running task: the message goes out, or the
\* publish raises (the exception is never retrieved by anyone).
publish_task_running(t, ok) ==
    /\ running[t] = "pending"
    /\ running' = [running EXCEPT ![t] = IF ok THEN "done" ELSE "failed"]
    /\ broker_ops' = IF ok THEN broker_ops \cup {<<t, "publish_running">>} ELSE broker_ops
    /\ UNCHANGED <<libVars, appVars, fanoutVars, entryVars, unit, completed, is_error, handler_invoked,
                   exception, output_data, nack_requeue, acked, emitted,
                   active_tasks, flagVars, brokerVars>>

\* `TaskCompletedUpdate(id=..., output_data=output_data, is_error=is_error)`
\* as the unit builds it from its locals
TaskCompletedUpdate(t) == [is_error |-> is_error[t], output_data |-> output_data[t]]

\* `await self._broker_client.publish_task_completed(...)`, first half: the
\* TaskCompleted message is built from the unit's locals and handed to the
\* channel.  The unit does not read result, the caught exception or the
\* handler's state again; is_error is read once more after the ack.
publish_task_completed_send(t) ==
    /\ unit[t] = "COMPLETE"
    /\ completed' = [completed EXCEPT ![t] = "sent"]
    /\ emitted' = [emitted EXCEPT ![t] = Append(emitted[t], "completed")]
    /\ broker_ops' = broker_ops \cup {<<t, "publish_completed">>}
    /\ unit' = [unit EXCEPT ![t] = "CONFIRM"]
    /\ handler_invoked' = FrameDropped(handler_invoked, {t})
    /\ exception' = LocalsDropped(exception, {t}, NoException)
    /\ output_data' = LocalsDropped(output_data, {t}, NoData)
    /\ UNCHANGED <<libVars, appVars, fanoutVars, entryVars, running, is_error, nack_requeue, acked,
                   active_tasks, flagVars, brokerVars>>

\* the second half, were a failed publish to nack the delivery
publish_task_completed_return_nacking(t, ok) ==
    /\ unit[t] = "CONFIRM"
    /\ RunningTaskStarted(t)
    /\ IF ok /\ connection = "open"
       THEN /\ completed' = [completed EXCEPT ![t] = "confirmed"]
            /\ unit' = [unit EXCEPT ![t] = "ACKING"]
            /\ UNCHANGED <<active_tasks, is_error, handler_invoked, exception, output_data,
                           nack_requeue, broker_ops, brokerVars>>
       ELSE /\ completed' = [completed EXCEPT ![t] = "failed"]
            /\ unit' = [unit EXCEPT ![t] = "FAIL_DELIVERY"]
            /\ active_tasks' = active_tasks \ {t}
            /\ is_error' = FrameDropped(is_error, {t})
            /\ handler_invoked' = FrameDropped(handler_invoked, {t})
            /\ exception' = LocalsDropped(exception, {t}, NoException)
            /\ output_data' = LocalsDropped(output_data, {t}, NoData)
            /\ nack_requeue' = [nack_requeue EXCEPT ![t] = "requeue"]
            /\ broker_ops' = broker_ops \cup {<<t, "nack">>}
            /\ unacked' = unacked \ {t}
            /\ queue' = queue \cup {tag_msg[t]}
            /\ UNCHANGED <<msg_kind, tag_msg>>
    /\ UNCHANGED <<libVars, appVars, fanoutVars, entryVars, running, acked, emitted, flagVars>>

\* Second half: the publish call returns once the broker confirmed the
\* message, or raises.  When it raises the exception leaves the unit: no ack,
\* no nack, and the done callback discards the unit from _active_tasks.
publish_task_completed_return(t, ok) ==
    /\ unit[t] = "CONFIRM"
    /\ RunningTaskStarted(t)
    /\ IF ok /\ connection = "open"
       THEN /\ completed' = [completed EXCEPT ![t] = "confirmed"]
            /\ unit' = [unit EXCEPT ![t] = "ACKING"]
            /\ UNCHANGED <<active_tasks, is_error, handler_invoked, exception, output_data>>
       ELSE /\ completed' = [completed EXCEPT ![t] = "failed"]
            /\ unit' = [unit EXCEPT ![t] = "FAIL_DELIVERY"]
            /\ active_tasks' = active_tasks \ {t}
            /\ is_error' = FrameDropped(is_error, {t})
            /\ handler_invoked' = FrameDropped(handler_invoked, {t})
            /\ exception' = LocalsDropped(exception, {t}, NoException)
            /\ output_data' = LocalsDropped(output_data, {t}, NoData)
    /\ UNCHANGED <<libVars, appVars, fanoutVars, entryVars, running, nack_requeue, acked, broker_ops,
                   emitted, flagVars, brokerVars>>

\* The unit acks only from the statement after the awaited publish.
AckBeforePublish(t) == unit[t] \in {"COMPLETE", "CONFIRM", "ACKING"}
AckReady(t) == unit[t] = "ACKING"

\* `await message.ack()`, after which the unit returns and the done callback
\* discards it from _active_tasks.
ack(t) ==
    /\ AckReady(t)
    /\ acked' = acked \cup {t}
    /\ broker_ops' = broker_ops \cup {<<t, "ack">>}
    /\ unacked' = unacked \ {t}
    /\ unit' = [unit EXCEPT ![t] = "ACK"]
    /\ active_tasks' = active_tasks \ {t}
    /\ is_error' = FrameDropped(is_error, {t})
    /\ handler_invoked' = FrameDropped(handler_invoked, {t})
    /\ exception' = LocalsDropped(exception, {t}, NoException)
    /\ output_data' = LocalsDropped(output_data, {t}, NoData)
    /\ UNCHANGED <<libVars, appVars, fanoutVars, entryVars, running, completed, nack_requeue, emitted,
                   flagVars, msg_kind, queue, tag_msg>>

\* every step of the unit of delivery t and of its background publish
UnitNext(t) ==
    \/ execute_unregistered(t)
    \/ execute_start(t)
    \/ \E o \in Outcomes : execute_handler(t, o)
    \/ \E ok \in BOOLEAN : publish_task_running(t, ok)
    \/ publish_task_completed_send(t)
    \/ \E ok \in BOOLEAN : publish_task_completed_return(t, ok)
    \/ ack(t)

\* ------------------------------------------------------------ shutdown

\* WorkerApplication.issue_shutdown: sets the event and nothing else.
issue_shutdown_cancelling ==
    /\ ~shutdown_event
    /\ shutdown_event' = TRUE
    /\ inflight_at_shutdown' = active_tasks
    /\ unit' = [t \in Tags |-> IF t \in active_tasks THEN "CANCELLED" ELSE unit[t]]
    /\ active_tasks' = {}
    /\ is_error' = FrameDropped(is_error, active_tasks)
    /\ handler_invoked' = FrameDropped(handler_invoked, active_tasks)
    /\ exception' = LocalsDropped(exception, active_tasks, NoException)
    /\ output_data' = LocalsDropped(output_data, active_tasks, NoData)
    /\ UNCHANGED <<libVars, appVars, fanoutVars, entryVars, running, completed, nack_requeue, acked,
                   broker_ops, emitted, brokerVars, shutdown_complete_event>>

issue_shutdown ==
    /\ ~shutdown_event
    /\ shutdown_event' = TRUE
    /\ inflight_at_shutdown' = active_tasks
    /\ UNCHANGED <<libVars, appVars, fanoutVars, entryVars, unitVars, brokerVars, shutdown_complete_event>>

\* `await asyncio.gather(*self._active_tasks)` returns when every task it was
\* given has returned.
GatherNotAwaited == TRUE
GatherReturns == \A t \in gathered : unit[t] \in {"ACK", "REJECT_PERMANENT"}

\* gather is called without return_exceptions: the first exception of a task
\* it was given is raised to the awaiting _cleanup at once.
GatherRaises == \E t \in gathered : unit[t] = "FAIL_DELIVERY"

\* _cleanup resumes from gather with every unit done and awaits disconnect.
cleanup_gather_returns ==
    /\ entry = "gather"
    /\ GatherReturns
    /\ entry' = "disconnect"
    /\ UNCHANGED <<libVars, appVars, fanoutVars, connection, listen_error, gathered, unitVars, flagVars,
                   brokerVars>>

\* _cleanup resumes from gather with the exception of a unit: it leaves
\* _cleanup and entrypoint (the call is in the finally block); neither the
\* disconnect nor _shutdown_complete_event.set() is reached.
cleanup_gather_raises ==
    /\ entry = "gather"
    /\ GatherRaises
    /\ entry' = "raised"
    /\ UNCHANGED <<libVars, appVars, fanoutVars, connection, listen_error, gathered, unitVars, flagVars,
                   brokerVars>>

\* Closing the connection releases its unacknowledged deliveries: the broker
\* puts them back on the queue.
Released == {tag_msg[t] : t \in unacked}

\* the last step of _cleanup, were an error of disconnect to leave it
cleanup_disconnect_propagating(ok) ==
    /\ entry = "disconnect"
    /\ IF ok
       THEN /\ connection' = "closed"
            /\ queue' = queue \cup Released
            /\ unacked' = {}
            /\ shutdown_complete_event' = TRUE
            /\ entry' = IF listen_error THEN "raised" ELSE "returned"
       ELSE /\ entry' = "raised"
            /\ UNCHANGED <<connection, queue, unacked, shutdown_complete_event>>
    /\ UNCHANGED <<libVars, appVars, fanoutVars, listen_error, gathered, unitVars, msg_kind, tag_msg,
                   shutdown_event, inflight_at_shutdown>>

\* `await self._broker_client.disconnect()` inside try/except Exception, then
\* `self._shutdown_complete_event.set()`; a pending error of _listen is then
\* raised out of entrypoint.  An error of disconnect is logged and swallowed.
cleanup_disconnect(ok) ==
    /\ entry = "disconnect"
    /\ IF ok
       THEN /\ connection' = "closed"
            /\ queue' = queue \cup Released
            /\ unacked' = {}
       ELSE UNCHANGED <<connection, queue, unacked>>
    /\ shutdown_complete_event' = TRUE
    /\ entry' = IF listen_error THEN "raised" ELSE "returned"
    /\ UNCHANGED <<libVars, appVars, fanoutVars, listen_error, gathered, unitVars, msg_kind, tag_msg,
                   shutdown_event, inflight_at_shutdown>>

\* wait_for_shutdown is `await self._shutdown_complete_event.wait()`: a call
\* returns exactly in the states where the event is set.
wait_for_shutdown_returns == shutdown_complete_event

\* ------------------------------------------------------------ runner

\* Units a cancelled gather cancels: those it was given that are not done.
\* CancelledError is not an Exception, so the unit does not catch it.
CancelledByGather == {t \in gathered : unit[t] \notin Terminal}

\* ApplicationRunner.shutdown: `self._task.cancel()` on the entrypoint task.
\*  - in the connect retry: CancelledError leaves entrypoint;
\*  - in the pull of _listen: entrypoint catches it (`except CancelledError:
\*    pass`) and the finally block runs _cleanup;
\*  - in gather: gather cancels the units it awaits and the error leaves
\*    _cleanup;
\*  - in disconnect: `except Exception` does not catch it; the connection may
\*    or may not have been closed.
cancel_entrypoint(closed) ==
    /\ entry \in {"connect", "pull", "gather", "disconnect"}
    /\ entry' = IF entry = "pull" THEN "gather" ELSE "cancelled"
    /\ gathered' = IF entry = "pull" THEN active_tasks ELSE gathered
    /\ IF entry = "gather"
       THEN /\ unit' = [t \in Tags |-> IF t \in CancelledByGather THEN "CANCELLED" ELSE unit[t]]
            /\ active_tasks' = active_tasks \ CancelledByGather
            /\ is_error' = FrameDropped(is_error, CancelledByGather)
            /\ handler_invoked' = FrameDropped(handler_invoked, CancelledByGather)
            /\ exception' = LocalsDropped(exception, CancelledByGather, NoException)
            /\ output_data' = LocalsDropped(output_data, CancelledByGather, NoData)
       ELSE UNCHANGED <<unit, active_tasks, is_error, handler_invoked, exception, output_data>>
    /\ IF entry = "disconnect" /\ closed
       THEN /\ connection' = "closed"
            /\ queue' = queue \cup Released
            /\ unacked' = {}
       ELSE /\ (~closed \/ entry = "disconnect")
            /\ UNCHANGED <<connection, queue, unacked>>
    /\ UNCHANGED <<libVars, appVars, fanoutVars, listen_error, running, completed, nack_requeue, acked,
                   broker_ops, emitted, msg_kind, tag_msg, flagVars>>

\* ------------------------------------------------------------ registry

\* A codec factory returns a codec or raises: [codec, error].
Returns(codec) == [codec |-> codec, error |-> None]
Raises(error) == [codec |-> None, error |-> error]

\* create_encoder(data_type)
create_encoder(T) ==
    IF T = "bytes" THEN Returns("PassthroughEncoder")
    ELSE IF T = "str" THEN Returns("StringEncoder")
    ELSE IF is_dict(T) THEN Returns("JsonDictEncoder")
    ELSE IF isclass(T) /\ is_BaseModel_subclass(T) THEN Returns("PydanticEncoder")
    ELSE Raises("EncodingError")

\* create_decoder(data_type): the last test is `issubclass(data_type,
\* BaseModel)` without isclass, and issubclass raises TypeError when its first
\* argument is not a class.
create_decoder(T) ==
    IF T = "bytes" THEN Returns("PassthroughDecoder")
    ELSE IF T = "str" THEN Returns("StringDecoder")
    ELSE IF is_dict(T) THEN Returns("JsonDictDecoder")
    ELSE IF ~isclass(T) THEN Raises("TypeError")
    ELSE IF is_BaseModel_subclass(T) THEN Returns("PydanticDecoder")
    ELSE Raises("EncodingError")

\* register_task, `if input_decoder is None:` block
ResolveDecoder(task, input_decoder) ==
    IF input_decoder # None THEN Returns(input_decoder)
    ELSE IF task.in = NoHint THEN Raises("ValueError")
    ELSE create_decoder(task.in)

\* register_task, `if output_encoder is None:` block
ResolveEncoderDefault(task, output_encoder) ==
    IF output_encoder # None THEN Returns(output_encoder)
    ELSE IF task.out = NoHint THEN Returns("PassthroughEncoder")
    ELSE create_encoder(task.out)

ResolveEncoder(task, output_encoder) ==
    IF output_encoder # None THEN Returns(output_encoder)
    ELSE IF task.out = NoHint THEN Raises("ValueError")
    ELSE create_encoder(task.out)

\* the exception register_task raises for these arguments (None: it returns);
\* the decoder is resolved first
RegisterError(task, input_decoder, output_encoder) ==
    IF ResolveDecoder(task, input_decoder).error # None
    THEN ResolveDecoder(task, input_decoder).error
    ELSE ResolveEncoder(task, output_encoder).error

\* WorkerApplication.register_task: both codecs are resolved before
\* `self._registered_tasks[kind] = TaskHandler(...)`, the only write.
register_task_rejects_duplicates(kind, task, input_decoder, output_encoder) ==
    /\ register_call' = [kind |-> kind, task |-> task,
                         input_decoder |-> input_decoder, output_encoder |-> output_encoder]
    /\ IF registered_tasks[kind] # None
       THEN /\ register_error' = "ValueError"
            /\ UNCHANGED <<registered_tasks, handler_codecs>>
       ELSE /\ register_error' = RegisterError(task, input_decoder, output_encoder)
            /\ IF RegisterError(task, input_decoder, output_encoder) = None
               THEN /\ registered_tasks' = [registered_tasks EXCEPT ![kind] = task.name]
                    /\ handler_codecs' = [handler_codecs EXCEPT ![kind] =
                          [input_decoder |-> ResolveDecoder(task, input_decoder).codec,
                           output_encoder |-> ResolveEncoder(task, output_encoder).codec]]
               ELSE UNCHANGED <<registered_tasks, handler_codecs>>
    /\ UNCHANGED <<libVars, prefetch_count, fanoutVars, entryVars, unitVars, flagVars, brokerVars>>

register_task(kind, task, input_decoder, output_encoder) ==
    /\ register_call' = [kind |-> kind, task |-> task,
                         input_decoder |-> input_decoder, output_encoder |-> output_encoder]
    /\ register_error' = RegisterError(task, input_decoder, output_encoder)
    /\ IF RegisterError(task, input_decoder, output_encoder) = None
       THEN /\ registered_tasks' = [registered_tasks EXCEPT ![kind] = task.name]
            /\ handler_codecs' = [handler_codecs EXCEPT ![kind] =
                  [input_decoder |-> ResolveDecoder(task, input_decoder).codec,
                   output_encoder |-> ResolveEncoder(task, output_encoder).codec]]
       ELSE UNCHANGED <<registered_tasks, handler_codecs>>
    /\ UNCHANGED <<libVars, prefetch_count, fanoutVars, entryVars, unitVars, flagVars, brokerVars>>

\* ------------------------------------------------------------ broker client

\* classes of core/infra/broker/client.py
BrokerClientClasses == {"PublisherBrokerClient", "WorkerBrokerClient"}

\* routing key publish_task_result gives its message (the constant TASK_EXCHANGE)
ResultRoutingKeyOfWorker == WorkerRoutingKey
ResultRoutingKey == "task_exchange"

\* what aio_pika does with an operation on a channel whose connection was
\* closed by close(): it raises, or it waits for a connection that never comes
ClosedChannelOutcomes == {"ChannelInvalidStateError", "blocks"}

ClientCall(op, error, sent) == [op |-> op, error |-> error, sent |-> sent]

workerVars == <<appVars, entryVars, unitVars, flagVars, tag_msg, unacked, msg_priority>>
queueVars == <<msg_kind, queue, relay_queue, cloned_queue>>

\* broker operations of BaseBrokerClient.connect, and those WorkerBrokerClient.connect adds
BaseConnectOps == {"connect", "channel", "declare_exchange", "declare_queue", "bind"}
ConnectOps == IF client_class = "WorkerBrokerClient"
              THEN BaseConnectOps \cup {"set_qos"} ELSE BaseConnectOps

\* BaseBrokerClient.connect / WorkerBrokerClient.connect; ok = FALSE:
\* connect_robust raises and nothing is assigned
connect(ok) ==
    /\ IF ok
       THEN /\ client_connection' = "open"
            /\ task_exchange' = TRUE
            /\ client_queue' = (client_queue \/ client_class = "WorkerBrokerClient")
            /\ call' = ClientCall("connect", None, ConnectOps)
       ELSE /\ call' = ClientCall("connect", "AMQPConnectionError", {})
            /\ UNCHANGED <<client_connection, task_exchange, client_queue>>
    /\ UNCHANGED <<client_class, test_mode, binded_worker_queues, result_queues,
                   workerVars, relayVars, runnerVars, publisherVars, codecVars, pbcVars, msg_kind, queue, relay_queue, cloned_queue>>

\* BaseBrokerClient.disconnect: _connection, _channel and _task_exchange keep
\* their values
disconnect ==
    /\ IF client_connection = None
       THEN /\ call' = ClientCall("disconnect", "NotConnectedError", {})
            /\ UNCHANGED client_connection
       ELSE /\ call' = ClientCall("disconnect", None,
                                  IF client_connection = "open" THEN {"close"} ELSE {})
            /\ client_connection' = "closed"
    /\ UNCHANGED <<client_class, test_mode, task_exchange, binded_worker_queues,
                   client_queue, result_queues,
                   workerVars, relayVars, runnerVars, publisherVars, codecVars, pbcVars, msg_kind, queue, relay_queue, cloned_queue>>

\* an operation on self._channel, self._task_exchange or self._queue reaches the broker
ChannelOpen == client_connection = "open"

\* PublisherBrokerClient._declare_worker_queue as a function of the client's
\* state: the exception it raises, the broker operations it sends, the new
\* _binded_worker_queues
DeclareWorkerQueue(worker_kind, exchange, open, outcome) ==
    IF worker_kind \in binded_worker_queues
    THEN [error |-> None, sent |-> {}, binded |-> binded_worker_queues]
    ELSE IF ~exchange
    THEN [error |-> "RuntimeError", sent |-> {}, binded |-> binded_worker_queues]
    ELSE IF ~open
    THEN [error |-> outcome, sent |-> {}, binded |-> binded_worker_queues]
    ELSE [error |-> None, sent |-> {"declare_queue", "bind"},
          binded |-> binded_worker_queues \cup {worker_kind}]

declare_worker_queue(worker_kind, outcome) ==
    /\ client_class = "PublisherBrokerClient"
    /\ LET r == DeclareWorkerQueue(worker_kind, task_exchange, ChannelOpen, outcome)
       IN /\ call' = ClientCall("_declare_worker_queue", r.error, r.sent)
          /\ binded_worker_queues' = r.binded
    /\ UNCHANGED <<client_class, test_mode, client_connection, task_exchange,
                   client_queue, result_queues,
                   workerVars, relayVars, runnerVars, publisherVars, codecVars, pbcVars, msg_kind, queue, relay_queue, cloned_queue>>

\* the guard of purge_worker_queue
PurgeAlwaysAllowed == TRUE
PurgeAllowed == test_mode

\* PublisherBrokerClient.purge_worker_queue
purge_worker_queue(worker_kind, outcome) ==
    /\ client_class = "PublisherBrokerClient"
    /\ IF ~PurgeAllowed
       THEN /\ call' = ClientCall("purge_worker_queue", "RuntimeError", {})
            /\ UNCHANGED queue
       ELSE IF ~task_exchange
       THEN /\ call' = ClientCall("purge_worker_queue", "RuntimeError", {})
            /\ UNCHANGED queue
       ELSE IF ~ChannelOpen
       THEN /\ call' = ClientCall("purge_worker_queue", outcome, {})
            /\ UNCHANGED queue
       ELSE /\ call' = ClientCall("purge_worker_queue", None, {"declare_queue", "purge"})
            /\ queue' = {}
    /\ UNCHANGED <<client_class, test_mode, client_connection, task_exchange,
                   binded_worker_queues, client_queue, result_queues,
                   workerVars, relayVars, runnerVars, publisherVars, codecVars, pbcVars, msg_kind, relay_queue, cloned_queue>>

\* PublisherBrokerClient.publish_task with the state of the client: connects
\* when _task_exchange is unset, declares the queues of the kind, publishes
client_publish_task(worker_kind, ok, outcome) ==
    /\ client_class = "PublisherBrokerClient"
    /\ NextMsg # 0
    /\ LET connects == ~task_exchange
           exchange == task_exchange \/ ok
           open == IF connects THEN ok ELSE ChannelOpen
           connectOps == IF connects /\ ok THEN ConnectOps ELSE {}
           r == DeclareWorkerQueue(worker_kind, exchange, open, outcome)
       IN IF connects /\ ~ok
          THEN /\ call' = ClientCall("publish_task", "AMQPConnectionError", {})
               /\ UNCHANGED <<client_connection, task_exchange, binded_worker_queues,
                              msg_kind, queue, relay_queue, cloned_queue>>
          ELSE /\ client_connection' = IF connects THEN "open" ELSE client_connection
               /\ task_exchange' = TRUE
               /\ binded_worker_queues' = r.binded
               /\ IF r.error # None
                  THEN /\ call' = ClientCall("publish_task", r.error, connectOps \cup r.sent)
                       /\ UNCHANGED <<msg_kind, queue, relay_queue, cloned_queue>>
                  ELSE IF ~open
                  THEN /\ call' = ClientCall("publish_task", outcome, connectOps \cup r.sent)
                       /\ UNCHANGED <<msg_kind, queue, relay_queue, cloned_queue>>
                  ELSE /\ call' = ClientCall("publish_task", None,
                                             connectOps \cup r.sent \cup {"publish"})
                       /\ msg_kind' = [msg_kind EXCEPT ![NextMsg] = "k1"]
                       /\ queue' = IF WorkerKind \in Route(WorkerRoutingKey)
                                   THEN queue \cup {NextMsg} ELSE queue
                       /\ relay_queue' = IF RelayQueueName \in Route(WorkerRoutingKey)
                                         THEN relay_queue \cup {NextMsg} ELSE relay_queue
                       /\ cloned_queue' = IF ClonedQueueName \in Route(WorkerRoutingKey)
                                          THEN cloned_queue \cup {NextMsg} ELSE cloned_queue
    /\ UNCHANGED <<client_class, test_mode, client_queue, result_queues, workerVars, relayVars, runnerVars,
                   publisherVars, codecVars, pbcVars>>

\* WorkerBrokerClient.listen up to its first delivery
listen(outcome) ==
    /\ client_class = "WorkerBrokerClient"
    /\ call' = IF ~client_queue THEN ClientCall("listen", "RuntimeError", {})
               ELSE IF ~ChannelOpen THEN ClientCall("listen", outcome, {})
               ELSE ClientCall("listen", None, {"consume"})
    /\ UNCHANGED <<client_class, test_mode, client_connection, task_exchange,
                   binded_worker_queues, client_queue, result_queues,
                   workerVars, relayVars, runnerVars, publisherVars, codecVars, pbcVars, msg_kind, queue, relay_queue, cloned_queue>>

\* WorkerBrokerClient.publish_task_result
publish_task_result(has_output, outcome) ==
    /\ client_class = "WorkerBrokerClient"
    /\ IF ~has_output
       THEN /\ call' = ClientCall("publish_task_result", "ValueError", {})
            /\ UNCHANGED result_queues
       ELSE IF ~task_exchange
       THEN /\ call' = ClientCall("publish_task_result", "ExchangeNotDeclaredError", {})
            /\ UNCHANGED result_queues
       ELSE IF ~ChannelOpen
       THEN /\ call' = ClientCall("publish_task_result", outcome, {})
            /\ UNCHANGED result_queues
       ELSE /\ call' = ClientCall("publish_task_result", None, {"publish"})
            /\ result_queues' = result_queues \cup Route(ResultRoutingKey)
    /\ UNCHANGED <<client_class, test_mode, client_connection, task_exchange,
                   binded_worker_queues, client_queue,
                   workerVars, relayVars, runnerVars, publisherVars, codecVars, pbcVars, msg_kind, queue, relay_queue, cloned_queue>>

\* ------------------------------------------------------------ relay client

\* RelayConfig.default_retry_options: ExponentialRetry(attempts=3, statuses={500, 502, 503, 504})
Attempts == 3
RetryStatuses == {500, 502, 503, 504}

\* statuses the relay answers with
Statuses == {200, 201, 400, 404, 500, 503}

\* what the relay answers to the successive requests of one call
Responses == [1..Attempts -> Statuses]

\* aiohttp_retry: a response with this status is handed to the caller at once
is_status_code_ok_always(code) == TRUE
is_status_code_ok(code) == ~(code >= 500) /\ code \notin RetryStatuses

\* RetryClient.get: number of requests sent until a response is handed over
\* (a status that is ok, or the last attempt)
RECURSIVE Requests(_, _)
Requests(responses, i) ==
    IF is_status_code_ok(responses[i]) \/ i = Attempts THEN i
    ELSE Requests(responses, i + 1)

\* ClientResponse.raise_for_status
raise_for_status(status) == status >= 400

\* RelayClient.get_task after the response `status` was handed over
GetTaskResult(status) ==
    IF status = 404 THEN "None"
    ELSE IF raise_for_status(status) THEN "ClientResponseError"
    ELSE "Task"

\* RelayClient.check_health after the response `status` was handed over
HealthResult(status) == IF status = 200 THEN "HEALTHY" ELSE "UNKNOWN"

NextSession == IF \E i \in SessionIds : sessions[i] = "unborn"
               THEN CHOOSE i \in SessionIds : sessions[i] = "unborn"
                                              /\ \A j \in 1..(i-1) : sessions[j] # "unborn"
               ELSE 0

\* RelayClient.connect as a function of the client's state: the session held
\* and the state of every session afterwards
ConnectedUnguarded ==
    [session |-> NextSession, sessions |-> [sessions EXCEPT ![NextSession] = "open"]]
Connected ==
    IF relay_session = 0
    THEN [session |-> NextSession, sessions |-> [sessions EXCEPT ![NextSession] = "open"]]
    ELSE [session |-> relay_session, sessions |-> sessions]

\* RelayClient.connect
relay_connect ==
    /\ NextSession # 0
    /\ relay_session' = Connected.session
    /\ sessions' = Connected.sessions
    /\ relay_call' = [op |-> "connect", seen |-> <<>>, result |-> None]
    /\ UNCHANGED <<workerVars, clientVars, runnerVars, publisherVars, codecVars, pbcVars, queueVars>>

\* RelayClient.disconnect
relay_disconnect ==
    /\ IF relay_session # 0
       THEN /\ sessions' = [sessions EXCEPT ![relay_session] = "closed"]
            /\ relay_session' = 0
       ELSE UNCHANGED <<relay_session, sessions>>
    /\ relay_call' = [op |-> "disconnect", seen |-> <<>>, result |-> None]
    /\ UNCHANGED <<workerVars, clientVars, runnerVars, publisherVars, codecVars, pbcVars, queueVars>>

\* RelayClient.get_task: the session property, then the request under RetryClient
RelayGetTask(responses) ==
    /\ relay_session # 0 \/ NextSession # 0
    /\ relay_session' = Connected.session
    /\ sessions' = Connected.sessions
    /\ LET n == Requests(responses, 1)
       IN relay_call' = [op |-> "get_task", seen |-> SubSeq(responses, 1, n),
                         result |-> GetTaskResult(responses[n])]

\* RelayClient.get_task called on the relay client directly
relay_get_task(responses) ==
    /\ RelayGetTask(responses)
    /\ UNCHANGED <<workerVars, clientVars, runnerVars, publisherVars, codecVars, pbcVars, queueVars>>

\* RelayClient.check_health; reachable = FALSE: the request raises ClientConnectorError
check_health(responses, reachable) ==
    /\ relay_session # 0 \/ NextSession # 0
    /\ relay_session' = Connected.session
    /\ sessions' = Connected.sessions
    /\ LET n == Requests(responses, 1)
       IN relay_call' = IF reachable
                        THEN [op |-> "check_health", seen |-> SubSeq(responses, 1, n),
                              result |-> HealthResult(responses[n])]
                        ELSE [op |-> "check_health", seen |-> <<>>, result |-> "NOT_REACHABLE"]
    /\ UNCHANGED <<workerVars, clientVars, runnerVars, publisherVars, codecVars, pbcVars, queueVars>>

\* ------------------------------------------------------------ publisher client

\* TaskStatus of the record the relay holds for a task
TaskStatuses == {"PENDING", "RUNNING", "COMPLETED"}

\* Task.has_finished of a record with status `status`
has_finished(status) == status = "COMPLETED"

\* the `while` test of PublisherClient.get_task with the has_finished half dropped
KeepsPollingWhileNone(t) == t = "None"

\* the `while` test of PublisherClient.get_task on the local `task`
KeepsPolling(t) == t = "None" \/ ~has_finished(t)

\* PublisherClient.get_task is called: `task` is None, so the loop is entered
get_task_call(retry) ==
    /\ poll \in {"idle", "returned", "raised"}
    /\ retry_until_complete' = retry
    /\ polled_task' = "None"
    /\ polls' = 0
    /\ poll' = IF KeepsPolling("None") THEN "query" ELSE "returned"
    /\ UNCHANGED <<workerVars, clientVars, relayVars, runnerVars, codecVars, pbcVars, queueVars>>

\* one pass of the loop up to the sleep: the relay query, whose exception
\* leaves get_task, and the break when retry_until_complete is false
get_task_query(responses, status) ==
    /\ poll = "query"
    /\ polls < MaxPolls
    /\ RelayGetTask(responses)
    /\ polls' = polls + 1
    /\ LET r == relay_call'.result
       IN /\ polled_task' = IF r = "Task" THEN status
                            ELSE IF r = "None" THEN "None"
                            ELSE polled_task
          /\ poll' = IF r = "ClientResponseError" THEN "raised"
                     ELSE IF ~retry_until_complete THEN "returned"
                     ELSE "sleep"
    /\ UNCHANGED <<retry_until_complete, workerVars, clientVars, runnerVars, codecVars, pbcVars,
                   queueVars>>

\* asyncio.sleep(0.25) ends and the `while` test is evaluated again
get_task_sleep ==
    /\ poll = "sleep"
    /\ poll' = IF KeepsPolling(polled_task) THEN "query" ELSE "returned"
    /\ UNCHANGED <<retry_until_complete, polls, polled_task, workerVars, clientVars,
                   relayVars, runnerVars, codecVars, pbcVars, queueVars>>

\* ------------------------------------------------------------ codecs

\* Python values are records of a type tag `k` and a payload `v`: the code
\* points of a str, the bytes of a bytes object, the items of a list or tuple,
\* the <<key, value>> pairs of a dict in insertion order, the field `value`
\* of a MyModel
PyStr(s) == [k |-> "str", v |-> s]
PyBytes(b) == [k |-> "bytes", v |-> b]
PyInt(n) == [k |-> "int", v |-> <<n>>]
PyList(xs) == [k |-> "list", v |-> xs]
PyTuple(xs) == [k |-> "tuple", v |-> xs]
PyDict(items) == [k |-> "dict", v |-> items]
PyModel(n) == [k |-> "MyModel", v |-> <<n>>]

\* whether a result is an exception
IsRaised(x) == x.k \in {"TypeError", "UnicodeEncodeError", "UnicodeDecodeError",
                        "ValidationError", "EncodingError"}

\* a JSON document, as json.dumps writes it and json.loads reads it: the
\* text is ASCII (ensure_ascii), so its UTF-8 bytes are the text
JString(s) == [k |-> "string", v |-> s]
JNumber(n) == [k |-> "number", v |-> <<n>>]
JArray(xs) == [k |-> "array", v |-> xs]
JObject(members) == [k |-> "object", v |-> members]
JsonText(doc) == [k |-> "json", v |-> <<doc>>]

\* str.encode("utf-8") of one code point; <<>> for a lone surrogate, which
\* has no UTF-8 form
IsSurrogate(cp) == cp >= 55296 /\ cp <= 57343
utf8_sequence(cp) ==
    IF cp < 128 THEN <<cp>>
    ELSE IF cp < 2048 THEN <<192 + (cp \div 64), 128 + (cp % 64)>>
    ELSE IF cp < 65536
         THEN <<224 + (cp \div 4096), 128 + ((cp \div 64) % 64), 128 + (cp % 64)>>
    ELSE <<240 + (cp \div 262144), 128 + ((cp \div 4096) % 64),
           128 + ((cp \div 64) % 64), 128 + (cp % 64)>>
utf8(cp) ==
    IF IsSurrogate(cp) THEN <<>> ELSE utf8_sequence(cp)

RECURSIVE Utf8Bytes(_)
Utf8Bytes(s) == IF s = <<>> THEN <<>> ELSE utf8(Head(s)) \o Utf8Bytes(Tail(s))

\* str.encode("utf-8")
str_encode(s) ==
    IF \E i \in 1..Len(s) : utf8(s[i]) = <<>> THEN PyRaised("UnicodeEncodeError")
    ELSE PyBytes(Utf8Bytes(s))

\* bytes.decode("utf-8"): the width the lead byte announces, 0 for a byte
\* that cannot lead
LeadWidth(b) ==
    IF b < 128 THEN 1
    ELSE IF b >= 194 /\ b <= 223 THEN 2
    ELSE IF b >= 224 /\ b <= 239 THEN 3
    ELSE IF b >= 240 /\ b <= 244 THEN 4
    ELSE 0
IsContinuation(b) == b >= 128 /\ b <= 191

\* the code point of the first `w` bytes of `b`, -1 when they are not one
\* well-formed UTF-8 sequence
CodePointAt(b, w) ==
    IF w = 0 \/ Len(b) < w \/ \E i \in 2..w : ~IsContinuation(b[i]) THEN -1
    ELSE LET cp == IF w = 1 THEN b[1]
                   ELSE IF w = 2 THEN (b[1] - 192) * 64 + (b[2] - 128)
                   ELSE IF w = 3 THEN (b[1] - 224) * 4096 + (b[2] - 128) * 64 + (b[3] - 128)
                   ELSE (b[1] - 240) * 262144 + (b[2] - 128) * 4096
                        + (b[3] - 128) * 64 + (b[4] - 128)
         IN IF (w = 3 /\ cp < 2048) \/ (w = 4 /\ cp < 65536) \/ cp > 1114111
               \/ IsSurrogate(cp)
            THEN -1 ELSE cp

\* the code points of `b`, <<-1>> when `b` is not well-formed UTF-8
RECURSIVE Utf8CodePoints(_)
Utf8CodePoints(b) ==
    IF b = <<>> THEN <<>>
    ELSE LET w == LeadWidth(b[1])
             cp == CodePointAt(b, w)
         IN IF cp = -1 THEN <<-1>>
            ELSE LET rest == Utf8CodePoints(SubSeq(b, w + 1, Len(b)))
                 IN IF rest = <<-1>> THEN <<-1>> ELSE <<cp>> \o rest

bytes_decode(b) ==
    LET s == Utf8CodePoints(b)
    IN IF s = <<-1>> THEN PyRaised("UnicodeDecodeError") ELSE PyStr(s)

\* str(n) of an int that is a dict key
RECURSIVE Digits(_)
Digits(n) == IF n < 10 THEN <<48 + n>> ELSE Digits(n \div 10) \o <<48 + (n % 10)>>

\* json.dumps: str, int, list and tuple (both written as arrays) and dict
\* (str keys as they are, int keys as their digits); any other object, or
\* any other key, is a TypeError
RECURSIVE dumps(_)
dumps(x) ==
    CASE x.k = "str" -> JString(x.v)
      [] x.k = "int" -> JNumber(x.v[1])
      [] x.k \in {"list", "tuple"} ->
            LET items == [i \in 1..Len(x.v) |-> dumps(x.v[i])]
            IN IF \E i \in 1..Len(items) : IsRaised(items[i]) THEN PyRaised("TypeError")
               ELSE JArray(items)
      [] x.k = "dict" ->
            LET name(key) == IF key.k = "str" THEN key.v
                             ELSE IF key.k = "int" THEN Digits(key.v[1])
                             ELSE <<-1>>
                members == [i \in 1..Len(x.v) |-> <<name(x.v[i][1]), dumps(x.v[i][2])>>]
            IN IF \E i \in 1..Len(members) :
                      members[i][1] = <<-1>> \/ IsRaised(members[i][2])
               THEN PyRaised("TypeError")
               ELSE JObject(members)
      [] OTHER -> PyRaised("TypeError")

\* dict built from members in order: a repeated name keeps its first place
\* and takes the last value
RECURSIVE DictOf(_, _)
DictOf(members, acc) ==
    IF members = <<>> THEN acc
    ELSE LET m == Head(members)
             at == {i \in 1..Len(acc) : acc[i][1] = m[1]}
         IN DictOf(Tail(members),
                   IF at = {} THEN Append(acc, m)
                   ELSE [i \in 1..Len(acc) |-> IF i \in at THEN m ELSE acc[i]])

\* json.loads of an array, were it to build a tuple
loads_array_as_tuple(items) == PyTuple(items)

\* json.loads of an array builds a list
loads_array(items) == PyList(items)

\* json.loads: arrays become lists, objects become dicts with str keys
RECURSIVE loads(_)
loads(j) ==
    CASE j.k = "string" -> PyStr(j.v)
      [] j.k = "number" -> PyInt(j.v[1])
      [] j.k = "array" -> loads_array([i \in 1..Len(j.v) |-> loads(j.v[i])])
      [] j.k = "object" ->
            PyDict(DictOf([i \in 1..Len(j.v) |-> <<PyStr(j.v[i][1]), loads(j.v[i][2])>>],
                          <<>>))

\* BaseModel.model_dump_json of a MyModel (one int field `value`)
model_dump_json(x) == JObject(<< <<<<118, 97, 108, 117, 101>>, JNumber(x.v[1])>> >>)

\* MyModel.model_validate_json
model_validate_json(j) ==
    IF /\ j.k = "object"
       /\ Len(j.v) = 1
       /\ j.v[1][1] = <<118, 97, 108, 117, 101>>
       /\ j.v[1][2].k = "number"
    THEN PyModel(j.v[1][2].v[1])
    ELSE PyRaised("ValidationError")

\* Encoder.encode of the built-in encoders: every exception becomes EncodingError
Encode(encoder, x) ==
    LET out == CASE encoder = "PassthroughEncoder" -> x
                 [] encoder = "StringEncoder" -> str_encode(x.v)
                 [] encoder = "JsonDictEncoder" ->
                       LET doc == dumps(x) IN IF IsRaised(doc) THEN doc ELSE JsonText(doc)
                 [] encoder = "PydanticEncoder" -> JsonText(model_dump_json(x))
    IN IF IsRaised(out) THEN PyRaised("EncodingError") ELSE out

\* Decoder.decode of the built-in decoders
Decode(decoder, data) ==
    LET out == CASE decoder = "PassthroughDecoder" -> data
                 [] decoder = "StringDecoder" -> bytes_decode(data.v)
                 [] decoder = "JsonDictDecoder" -> loads(data.v[1])
                 [] decoder = "PydanticDecoder" -> model_validate_json(data.v[1])
    IN IF IsRaised(out) THEN PyRaised("EncodingError") ELSE out

\* the built-in codecs, each with the type its encoder is declared for
BuiltinCodecs ==
    {[pair |-> CodecPair("PassthroughEncoder", "PassthroughDecoder"), of |-> "bytes"],
     [pair |-> CodecPair("StringEncoder", "StringDecoder"), of |-> "str"],
     [pair |-> CodecPair("JsonDictEncoder", "JsonDictDecoder"), of |-> "Dict[str, Any]"],
     [pair |-> CodecPair("PydanticEncoder", "PydanticDecoder"), of |-> "MyModel"]}

\* types for which create_encoder and create_decoder both return a codec
SupportedTypes ==
    {T \in Types : create_encoder(T).codec # None /\ create_decoder(T).codec # None}

\* sequences over `S` of length at most `n`
SeqsUpTo(S, n) == UNION {[1..m -> S] : m \in 0..n}

\* code points: A, e-acute, the euro sign, a lone surrogate, the rocket
CodePoints == {65, 233, 8364, 55296, 128640}
Bytes == {0, 65, 255}

StrValues == {PyStr(s) : s \in SeqsUpTo(CodePoints, MaxLen)}
BytesValues == {PyBytes(b) : b \in SeqsUpTo(Bytes, MaxLen)}
ModelValues == {PyModel(n) : n \in {-1, 0, 5}}

\* keys and values of the dicts explored: the keys "k", "1" and 1
StrKeys == {PyStr(<<107>>), PyStr(<<49>>)}
DictKeys == StrKeys \cup {PyInt(1)}
DictItemValues ==
    {PyStr(<<65>>), PyInt(42), PyBytes(<<65>>), PyList(<<PyInt(1)>>), PyTuple(<<PyInt(1)>>),
     PyDict(<< <<PyStr(<<107>>), PyStr(<<65>>)>> >>)}

\* dicts of at most MaxItems items with keys from `keys`, no key twice
DictsOver(keys) ==
    {PyDict(items) : items \in
        {q \in SeqsUpTo(keys \X DictItemValues, MaxItems) :
            \A i, j \in 1..Len(q) : (i # j) => (q[i][1] # q[j][1])}}

\* the values of a type
ValuesOf(T) ==
    CASE T = "bytes" -> BytesValues
      [] T = "str" -> StrValues
      [] T = "dict" -> DictsOver(DictKeys)
      [] T = "Dict[str, Any]" -> DictsOver(StrKeys)
      [] T = "MyModel" -> ModelValues

\* encoded_data = encoder.encode(original_data)
encode ==
    /\ codec_pair # NoCodecPair
    /\ encoded_data = NoValue
    /\ encoded_data' = Encode(codec_pair.encoder, original_data)
    /\ UNCHANGED <<data_type, codec_pair, original_data, decoded_data>>
    /\ UNCHANGED <<workerVars, clientVars, relayVars, runnerVars, publisherVars, pbcVars,
                   queueVars>>

\* decoded_data = decoder.decode(encoded_data)
decode ==
    /\ encoded_data # NoValue
    /\ ~IsRaised(encoded_data)
    /\ decoded_data = NoValue
    /\ decoded_data' = Decode(codec_pair.decoder, encoded_data)
    /\ UNCHANGED <<data_type, codec_pair, original_data, encoded_data>>
    /\ UNCHANGED <<workerVars, clientVars, relayVars, runnerVars, publisherVars, pbcVars,
                   queueVars>>

\* ------------------------------------------------------------ overlapping publish_task calls

\* `if worker_kind in self._binded_worker_queues`, were the cache never hit
CachedNever(k) == FALSE

\* `if worker_kind in self._binded_worker_queues`
Cached(k) == k \in pbc.binded

\* _declare_worker_queue up to its first await, entered with the client in
\* state `client`: the cache hit returns to publish_task, which goes on to
\* publish; a missing channel or exchange raises
DeclareEntry(k, client) ==
    IF Cached(k) THEN "publish"
    ELSE IF client.channel = 0 \/ client.task_exchange = 0 THEN "raised"
    ELSE "declare_queue"

At(c, pc) == publish_call[c].pc = pc
Goto(c, pc) == [publish_call EXCEPT ![c].pc = pc]
Counted(field, k) == [amqp EXCEPT ![field][k] = @ + 1]

\* no publish_task call is between its first and its last step
NoCallInProgress == \A c \in Calls : publish_call[c].pc \in {"none", "returned", "raised"}

pbcRest == <<workerVars, clientVars, relayVars, runnerVars, publisherVars, codecVars,
             queueVars>>

\* publish_task is called for a task of worker kind k: `if not
\* self._task_exchange` sends it to connect, otherwise to _declare_worker_queue
pbc_publish_task(c, k) ==
    /\ At(c, "none")
    /\ publish_call' = [publish_call EXCEPT ![c] =
                           [pc |-> IF pbc.task_exchange = 0 THEN "connect_robust"
                                   ELSE DeclareEntry(k, pbc),
                            kind |-> k]]
    /\ UNCHANGED <<pbc, amqp, pbcRest>>

\* connect: `self._connection = await connect_robust(url)`; ok = FALSE: it raises
pbc_connect_robust(c, ok) ==
    /\ At(c, "connect_robust")
    /\ IF ok
       THEN /\ amqp' = [amqp EXCEPT !.connections = @ + 1]
            /\ pbc' = [pbc EXCEPT !.connection = amqp.connections + 1]
            /\ publish_call' = Goto(c, "channel")
       ELSE /\ publish_call' = Goto(c, "raised")
            /\ UNCHANGED <<pbc, amqp>>
    /\ UNCHANGED pbcRest

\* connect: `self._channel = await self._connection.channel()`
pbc_channel(c) ==
    /\ At(c, "channel")
    /\ pbc' = [pbc EXCEPT !.channel = pbc.connection]
    /\ publish_call' = Goto(c, "declare_exchange")
    /\ UNCHANGED <<amqp, pbcRest>>

\* connect: `self._task_exchange = await self._channel.declare_exchange(...)`
pbc_declare_exchange(c) ==
    /\ At(c, "declare_exchange")
    /\ pbc' = [pbc EXCEPT !.task_exchange = pbc.channel]
    /\ publish_call' = Goto(c, "relay_queue")
    /\ UNCHANGED <<amqp, pbcRest>>

\* connect: the relay queue is declared and bound; connect returns and
\* publish_task enters _declare_worker_queue
pbc_relay_queue(c) ==
    /\ At(c, "relay_queue")
    /\ publish_call' = Goto(c, DeclareEntry(publish_call[c].kind, pbc))
    /\ UNCHANGED <<pbc, amqp, pbcRest>>

\* _declare_worker_queue: `await self._channel.declare_queue(worker_kind, ...)`;
\* ok = FALSE: the broker refuses and the call raises
pbc_declare_queue(c, ok) ==
    /\ At(c, "declare_queue")
    /\ IF ok
       THEN /\ amqp' = Counted("declared", publish_call[c].kind)
            /\ publish_call' = Goto(c, "bind")
       ELSE /\ publish_call' = Goto(c, "raised")
            /\ UNCHANGED amqp
    /\ UNCHANGED <<pbc, pbcRest>>

\* _declare_worker_queue: `await worker_queue.bind(...)`
pbc_bind(c) ==
    /\ At(c, "bind")
    /\ amqp' = Counted("bound", publish_call[c].kind)
    /\ publish_call' = Goto(c, "clone_queue")
    /\ UNCHANGED <<pbc, pbcRest>>

\* _declare_worker_queue: the clone queue is declared and bound, then
\* `self._binded_worker_queues.add(worker_kind)`; ok = FALSE: the broker
\* refuses the clone queue and the kind is not added
pbc_clone_queue(c, ok) ==
    /\ At(c, "clone_queue")
    /\ IF ok
       THEN /\ pbc' = [pbc EXCEPT !.binded = @ \cup {publish_call[c].kind}]
            /\ publish_call' = Goto(c, "publish")
       ELSE /\ publish_call' = Goto(c, "raised")
            /\ UNCHANGED pbc
    /\ UNCHANGED <<amqp, pbcRest>>

\* `await self._task_exchange.publish(message, routing_key=tasks.<kind>)`
pbc_publish(c) ==
    /\ At(c, "publish")
    /\ amqp' = Counted("published", publish_call[c].kind)
    /\ publish_call' = Goto(c, "returned")
    /\ UNCHANGED <<pbc, pbcRest>>

\* the steps of a call after its first
PublishTaskSteps(c) ==
    \/ \E ok \in BOOLEAN : pbc_connect_robust(c, ok)
    \/ pbc_channel(c)
    \/ pbc_declare_exchange(c)
    \/ pbc_relay_queue(c)
    \/ \E ok \in BOOLEAN : pbc_declare_queue(c, ok)
    \/ pbc_bind(c)
    \/ \E ok \in BOOLEAN : pbc_clone_queue(c, ok)
    \/ pbc_publish(c)

\* ------------------------------------------------------------ application runner

\* positions at which entrypoint has not yet begun _cleanup
RunningPositions == {"idle", "connect", "check", "pull"}

\* asyncio.Task.done() of the task running app.entrypoint
AppTaskDone == app_task = "created" /\ entry \in {"returned", "raised", "cancelled"}

\* asyncio.Task.done() of self._task: the entrypoint task, or in reload mode
\* the _run_with_reload task
TaskDone == IF reload THEN reload_loop \in {"returned", "raised", "cancelled"}
            ELSE AppTaskDone
TaskRaised == IF reload THEN reload_loop = "raised" ELSE entry = "raised"

\* the variables of the runtime a runner step leaves alone
runtimeRest == <<appVars, fanoutVars, unitVars, brokerVars, inflight_at_shutdown>>
runtimeVars == <<appVars, fanoutVars, entryVars, unitVars, brokerVars, flagVars>>

\* ApplicationRunner.startup up to `await asyncio.wait(...)`: installs the
\* signal handlers and creates self._task
startup ==
    /\ runner = "init"
    /\ runner' = "wait"
    /\ IF reload
       THEN reload_loop' = "head" /\ UNCHANGED app_task
       ELSE app_task' = "created" /\ UNCHANGED reload_loop
    /\ UNCHANGED <<reload, runner_shutdown_event, received, reload_task, imports,
                   runtimeVars, clientVars, relayVars,
                           publisherVars, codecVars, pbcVars>>

\* the handler add_signal_handler installed: a task running _signal_handler,
\* which sets the runner's own event
signal_handler(sig) ==
    /\ runner \in {"wait", "shutdown"}
    /\ received[sig] = None
    /\ received' = [received EXCEPT ![sig] = entry]
    /\ runner_shutdown_event' = TRUE
    /\ UNCHANGED <<reload, runner, reload_loop, reload_task, app_task, imports,
                   runtimeVars, clientVars, relayVars,
                           publisherVars, codecVars, pbcVars>>

\* startup resumes from asyncio.wait(FIRST_COMPLETED): the event was set or
\* self._task is done.  An exception of the task is raised again; the finally
\* block calls shutdown, which has work to do only if the task is not done.
startup_wait_returns ==
    /\ runner = "wait"
    /\ runner_shutdown_event \/ TaskDone
    /\ runner' = IF ~TaskDone THEN "shutdown"
                 ELSE IF TaskRaised THEN "raised" ELSE "returned"
    /\ UNCHANGED <<reload, runner_shutdown_event, received, reload_loop, reload_task,
                   app_task, imports, runtimeVars, clientVars, relayVars,
                           publisherVars, codecVars, pbcVars>>

\* ApplicationRunner.shutdown in reload mode: self._task.cancel() raises
\* CancelledError at the gather of _run_with_reload, whose handler cancels the
\* application task and the watcher and awaits them
shutdown_cancels_reload ==
    /\ runner = "shutdown"
    /\ reload
    /\ reload_loop = "gather"
    /\ reload_loop' = "cancelling"
    /\ reload_task' = IF reload_task = "watching" THEN "cancelled" ELSE reload_task
    /\ UNCHANGED <<reload, runner, runner_shutdown_event, received, app_task, imports,
                   runtimeVars, clientVars, relayVars,
                           publisherVars, codecVars, pbcVars>>

\* ApplicationRunner.shutdown: `self._task.cancel()` reaches entrypoint, at
\* once or through the handler of _run_with_reload (and again when the
\* 5 s of wait_for are over)
CancelReachesEntrypoint ==
    /\ runner = "shutdown"
    /\ app_task = "created"
    /\ IF reload THEN reload_loop = "cancelling" ELSE TRUE

\* ApplicationRunner.shutdown returns once self._task is done; what the task
\* raised is logged
shutdown_returns ==
    /\ runner = "shutdown"
    /\ TaskDone
    /\ runner' = "returned"
    /\ UNCHANGED <<reload, runner_shutdown_event, received, reload_loop, reload_task,
                   app_task, imports, runtimeVars, clientVars, relayVars,
                           publisherVars, codecVars, pbcVars>>

\* ModuleReloader.watch_and_reload returns: True on a change of a .py file,
\* False when the watch ends
watch_and_reload(changed) ==
    /\ reload_task = "watching"
    /\ reload_task' = IF changed THEN "True" ELSE "False"
    /\ UNCHANGED <<reload, runner, runner_shutdown_event, received, reload_loop,
                   app_task, imports, runtimeVars, clientVars, relayVars,
                           publisherVars, codecVars, pbcVars>>

\* the objects _run_with_reload looks for in `done`
AppTaskObject == "Task(app.entrypoint)"
ReloadTaskObject == "Future(watch_and_reload)"

\* `done = await asyncio.gather(reload_task, app_task)`: the list of the two
\* results, once both are done
GatherResults == <<reload_task, "None">>

\* `x in done`
InDone(x, done) == \E i \in DOMAIN done : done[i] = x

\* One step of the _run_with_reload task, from one await to the next.
run_with_reload ==
    CASE reload_loop = "head" ->
            \* clear the event, create the tasks that are None, await gather
            /\ runner_shutdown_event' = FALSE
            /\ app_task' = "created"
            /\ reload_task' = IF reload_task = "none" THEN "watching" ELSE reload_task
            /\ reload_loop' = "gather"
            /\ UNCHANGED <<reload, runner, received, imports,
                           runtimeVars, clientVars, relayVars,
                           publisherVars, codecVars, pbcVars>>
      [] reload_loop = "gather" ->
            \* gather raises what the application task raised as soon as it
            \* is raised, and returns when both tasks are done
            /\ AppTaskDone
            /\ entry # "returned" \/ reload_task \in {"True", "False"}
            /\ reload_loop' =
                 IF entry = "raised" THEN "raised"
                 ELSE IF entry = "cancelled" THEN "cancelling"
                 ELSE IF InDone(AppTaskObject, GatherResults) THEN "returned"
                 ELSE IF InDone(ReloadTaskObject, GatherResults) /\ reload_task = "True"
                      THEN "cleanup_app_task"
                 ELSE "head"
            /\ UNCHANGED <<reload, runner, runner_shutdown_event, received, reload_task,
                           app_task, imports, runtimeVars, clientVars, relayVars,
                           publisherVars, codecVars, pbcVars>>
      [] reload_loop = "cleanup_app_task" ->
            \* _cleanup_app_task: issue_shutdown, then await wait_for_shutdown
            /\ IF ~AppTaskDone
               THEN /\ shutdown_event' = TRUE
                    /\ inflight_at_shutdown' = active_tasks
                    /\ reload_loop' = "wait_for_shutdown"
               ELSE /\ reload_loop' = "import"
                    /\ UNCHANGED <<shutdown_event, inflight_at_shutdown>>
            /\ UNCHANGED <<reload, runner, runner_shutdown_event, received, reload_task,
                           app_task, imports, appVars, fanoutVars, entryVars, unitVars,
                           brokerVars, shutdown_complete_event, clientVars, relayVars,
                           publisherVars, codecVars, pbcVars>>
      [] reload_loop = "wait_for_shutdown" ->
            /\ wait_for_shutdown_returns
            /\ reload_loop' = "import"
            /\ UNCHANGED <<reload, runner, runner_shutdown_event, received, reload_task,
                           app_task, imports, runtimeVars, clientVars, relayVars,
                           publisherVars, codecVars, pbcVars>>
      [] reload_loop = "import" ->
            \* self.app = import_from_string(...): a new WorkerApplication
            /\ imports' = imports + 1
            /\ app_task' = "none"
            /\ reload_task' = "none"
            /\ reload_loop' = "head"
            /\ entry' = "idle"
            /\ connection' = "none"
            /\ listen_error' = FALSE
            /\ gathered' = {}
            /\ shutdown_event' = FALSE
            /\ shutdown_complete_event' = FALSE
            /\ inflight_at_shutdown' = {}
            /\ UNCHANGED <<reload, runner, runner_shutdown_event, received,
                           appVars, fanoutVars, unitVars, brokerVars, clientVars, relayVars,
                           publisherVars, codecVars, pbcVars>>
      [] reload_loop = "cancelling" ->
            \* the CancelledError handler has awaited the tasks it cancelled
            /\ AppTaskDone
            /\ reload_loop' = "cancelled"
            /\ UNCHANGED <<reload, runner, runner_shutdown_event, received, reload_task,
                           app_task, imports, runtimeVars, clientVars, relayVars,
                           publisherVars, codecVars, pbcVars>>
      [] OTHER -> FALSE

\* ------------------------------------------------------------ specification

Next ==
    \/ \E k \in Kinds : publish_task(k)
    \/ \E ok \in BOOLEAN : init_broker_client(ok)
    \/ listen_check
    \/ \E m \in MsgIds : listen_dispatch(m)
    \/ listen_timeout
    \/ listen_raises
    \/ \E t \in Tags : execute_unregistered(t)
    \/ \E t \in Tags : execute_start(t)
    \/ \E t \in Tags, o \in Outcomes : execute_handler(t, o)
    \/ \E t \in Tags, ok \in BOOLEAN : publish_task_running(t, ok)
    \/ \E t \in Tags : publish_task_completed_send(t)
    \/ \E t \in Tags, ok \in BOOLEAN : publish_task_completed_return(t, ok)
    \/ \E t \in Tags : ack(t)
    \/ issue_shutdown
    \/ cleanup_gather_returns
    \/ cleanup_gather_raises
    \/ \E ok \in BOOLEAN : cleanup_disconnect(ok)
    \/ \E closed \in BOOLEAN : cancel_entrypoint(closed)

Spec == Init /\ [][Next]_vars

\* The event loop runs every task that is ready, the broker answers, and a
\* task function returns or raises: each unit and each background publish
\* keeps taking its steps.
FairSpec == Spec /\ \A t \in Tags : WF_vars(UnitNext(t))

\* The application before entrypoint is called: a freshly constructed
\* WorkerApplication (empty registry) on which register_task is called any
\* number of times.  The registry does not read the prefetch count.
RegistryInit ==
    /\ registered_tasks = [k \in Kinds |-> None]
    /\ handler_codecs = [k \in Kinds |-> NoCodecs]
    /\ register_call = NoCall
    /\ register_error = None
    /\ prefetch_count = 1
    /\ msg_priority = [m \in MsgIds |-> DefaultPriority]
    /\ RuntimeInit
    /\ LibInit

RegistryNext ==
    \E kind \in Kinds, task \in TaskFunctions,
       input_decoder \in ExplicitDecoders, output_encoder \in ExplicitEncoders :
        register_task(kind, task, input_decoder, output_encoder)

RegistrySpec == RegistryInit /\ [][RegistryNext]_vars

\* The worker started with broker_prefetch_count = 1 while publishers give
\* their assignments any of the priorities.
PriorityInit ==
    /\ registered_tasks = RegisteredAtStartup
    /\ handler_codecs = [k \in Kinds |-> IF k = "k1"
                                         THEN [input_decoder |-> "PassthroughDecoder",
                                               output_encoder |-> "PassthroughEncoder"]
                                         ELSE NoCodecs]
    /\ register_call = [kind |-> "k1", task |-> [name |-> "h1", in |-> "bytes", out |-> "bytes"],
                        input_decoder |-> None, output_encoder |-> None]
    /\ register_error = None
    /\ prefetch_count = 1
    /\ msg_priority \in [MsgIds -> Priorities]
    /\ RuntimeInit
    /\ LibInit

PrioritySpec == PriorityInit /\ [][Next]_vars

\* A freshly constructed WorkerApplication that is never started
NoWorker ==
    /\ registered_tasks = [k \in Kinds |-> None]
    /\ handler_codecs = [k \in Kinds |-> NoCodecs]
    /\ register_call = NoCall
    /\ register_error = None
    /\ prefetch_count = 1
    /\ msg_priority = [m \in MsgIds |-> DefaultPriority]
    /\ RuntimeInit

\* A broker client of either class and either test_mode, on which a program
\* calls the operations of its class in any order.
BrokerClientInit ==
    /\ NoWorker
    /\ client_class \in BrokerClientClasses
    /\ test_mode \in BOOLEAN
    /\ client_connection = None
    /\ task_exchange = FALSE
    /\ binded_worker_queues = {}
    /\ client_queue = FALSE
    /\ call = NoClientCall
    /\ result_queues = {}
    /\ RelayInit
    /\ RunnerInit
    /\ PublisherInit
    /\ CodecInit
    /\ PbcInit

BrokerClientNext ==
    \/ \E ok \in BOOLEAN : connect(ok)
    \/ disconnect
    \/ \E o \in ClosedChannelOutcomes : declare_worker_queue(WorkerKind, o)
    \/ \E o \in ClosedChannelOutcomes : purge_worker_queue(WorkerKind, o)
    \/ \E ok \in BOOLEAN, o \in ClosedChannelOutcomes : client_publish_task(WorkerKind, ok, o)
    \/ \E o \in ClosedChannelOutcomes : listen(o)
    \/ \E has_output \in BOOLEAN, o \in ClosedChannelOutcomes : publish_task_result(has_output, o)

BrokerClientSpec == BrokerClientInit /\ [][BrokerClientNext]_vars

\* A relay client on which a program calls connect, disconnect, get_task and
\* check_health one after the other, in any order, against a relay that
\* answers with any of the statuses.
RelayClientInit == NoWorker /\ ClientInit /\ RelayInit /\ RunnerInit /\ PublisherInit /\ CodecInit /\ PbcInit

RelayClientNext ==
    \/ relay_connect
    \/ relay_disconnect
    \/ \E responses \in Responses : relay_get_task(responses)
    \/ \E responses \in Responses, reachable \in BOOLEAN : check_health(responses, reachable)

RelayClientSpec == RelayClientInit /\ [][RelayClientNext]_vars

\* a PublisherClient and its relay client, no broker and no worker
PublisherClientInit == NoWorker /\ ClientInit /\ RelayInit /\ RunnerInit /\ PublisherInit /\ CodecInit /\ PbcInit

PublisherClientNext ==
    \/ \E retry \in BOOLEAN : get_task_call(retry)
    \/ \E responses \in Responses, status \in TaskStatuses : get_task_query(responses, status)
    \/ get_task_sleep

PublisherClientSpec == PublisherClientInit /\ [][PublisherClientNext]_vars

\* a value of a codec's type, encoded and then decoded: by a built-in codec
\* built directly, or by the pair create_encoder / create_decoder select
CodecSpecInit ==
    /\ NoWorker /\ ClientInit /\ RelayInit /\ RunnerInit /\ PublisherInit /\ PbcInit
    /\ \/ \E c \in BuiltinCodecs :
            /\ data_type = "None"
            /\ codec_pair = c.pair
            /\ original_data \in ValuesOf(c.of)
       \/ \E T \in SupportedTypes :
            /\ data_type = T
            /\ codec_pair = CodecPair(create_encoder(T).codec, create_decoder(T).codec)
            /\ original_data \in ValuesOf(T)
    /\ encoded_data = NoValue
    /\ decoded_data = NoValue

CodecNext == encode \/ decode

CodecSpec == CodecSpecInit /\ [][CodecNext]_vars

\* one PublisherBrokerClient, no worker
PublishInit ==
    NoWorker /\ ClientInit /\ RelayInit /\ RunnerInit /\ PublisherInit /\ CodecInit /\ PbcInit

\* publish_task calls made one after the other: each is awaited before the next
SequentialPublishNext ==
    \/ \E c \in Calls, k \in PublishKinds : NoCallInProgress /\ pbc_publish_task(c, k)
    \/ \E c \in Calls : PublishTaskSteps(c)

SequentialPublishSpec == PublishInit /\ [][SequentialPublishNext]_vars

\* publish_task calls gathered on one event loop: a call may begin while
\* another is suspended at an await
OverlappingPublishNext ==
    \/ \E c \in Calls, k \in PublishKinds : pbc_publish_task(c, k)
    \/ \E c \in Calls : PublishTaskSteps(c)

OverlappingPublishSpec == PublishInit /\ [][OverlappingPublishNext]_vars

\* The worker started by `ApplicationRunner.startup(reload)`, in either mode,
\* with an idle queue: the process receives signals, the file watcher
\* reports, the broker connection may fail.  Nothing but the runner calls
\* issue_shutdown.
ApplicationRunnerInit ==
    /\ registered_tasks = RegisteredAtStartup
    /\ handler_codecs = [k \in Kinds |-> IF k = "k1"
                                         THEN [input_decoder |-> "PassthroughDecoder",
                                               output_encoder |-> "PassthroughEncoder"]
                                         ELSE NoCodecs]
    /\ register_call = [kind |-> "k1", task |-> [name |-> "h1", in |-> "bytes", out |-> "bytes"],
                        input_decoder |-> None, output_encoder |-> None]
    /\ register_error = None
    /\ prefetch_count = 1
    /\ msg_priority = [m \in MsgIds |-> DefaultPriority]
    /\ RuntimeInit
    /\ ClientInit
    /\ RelayInit
    /\ reload \in BOOLEAN
    /\ runner = "init"
    /\ runner_shutdown_event = FALSE
    /\ received = [sig \in Signals |-> None]
    /\ reload_loop = "none"
    /\ reload_task = "none"
    /\ app_task = "none"
    /\ imports = 0
    /\ PublisherInit
    /\ CodecInit
    /\ PbcInit

\* the steps of entrypoint while its task exists
EntrypointNext ==
    /\ app_task = "created"
    /\ \/ \E ok \in BOOLEAN : init_broker_client(ok)
       \/ listen_check
       \/ listen_timeout
       \/ listen_raises
       \/ cleanup_gather_returns
       \/ \E ok \in BOOLEAN : cleanup_disconnect(ok)

ApplicationRunnerNext ==
    \/ startup
    \/ \E sig \in Signals : signal_handler(sig)
    \/ startup_wait_returns
    \/ shutdown_cancels_reload
    \/ CancelReachesEntrypoint /\ \E closed \in BOOLEAN : cancel_entrypoint(closed)
    \/ shutdown_returns
    \/ \E changed \in BOOLEAN : watch_and_reload(changed)
    \/ run_with_reload
    \/ EntrypointNext

ApplicationRunnerSpec == ApplicationRunnerInit /\ [][ApplicationRunnerNext]_vars

\* The event loop runs every task that is ready: entrypoint, startup and
\* _run_with_reload keep taking their steps.  Signals, file changes and
\* failures are up to the environment.
FairApplicationRunnerSpec ==
    /\ ApplicationRunnerSpec
    /\ WF_vars(EntrypointNext)
    /\ WF_vars(startup)
    /\ WF_vars(startup_wait_returns)
    /\ WF_vars(shutdown_returns)
    /\ WF_vars(run_with_reload)

\* ------------------------------------------------------------ properties

Dispatched == {t \in Tags : unit[t] # "none"}

\* number of TaskCompleted publishes, over all deliveries of message m
CompletedPublishes(m) ==
    Cardinality({<<t, i>> \in Tags \X (1..2) :
                    /\ tag_msg[t] = m
                    /\ i <= Len(emitted[t])
                    /\ emitted[t][i] = "completed"})

\* the message of delivery t is with the broker for another delivery: still
\* unacknowledged on the channel, back on the queue, or already redelivered
Redeliverable(t) ==
    \/ t \in unacked
    \/ tag_msg[t] \in queue
    \/ \E s \in Tags : s > t /\ tag_msg[s] = tag_msg[t]

\* C1: a delivery is acked only from a state in which the TaskCompleted of
\* that delivery is already confirmed (its publish call has returned), and
\* every acked delivery has a confirmed TaskCompleted.
C1_CompletedConfirmedBeforeAck ==
    /\ [](\A t \in acked : completed[t] = "confirmed")
    /\ [][\A t \in Tags : (t \in acked' /\ t \notin acked) => completed[t] = "confirmed"]_vars

C1_Witness == \E t \in acked : unit[t] = "ACK" /\ completed[t] = "confirmed"

\* C2 (i): exactly one TaskCompleted was published for the id and the
\* delivery is acked.
AckedOutcome(t) ==
    /\ t \in acked
    /\ nack_requeue[t] = "none"
    /\ completed[t] = "confirmed"
    /\ CompletedPublishes(tag_msg[t]) = 1

\* C2 (ii): the delivery was never acked and the broker redelivers it.
RedeliveryOutcome(t) == t \notin acked /\ Redeliverable(t)

C3_InFlightAtMostPrefetch == Cardinality(active_tasks) <= prefetch_count

C3_Witness ==
    /\ prefetch_count >= 2
    /\ Cardinality(active_tasks) = prefetch_count
    /\ \A t \in active_tasks : unit[t] = "RUN"

\* C4: the lifecycle events a unit emits for its delivery are, in order, at
\* most one TaskRunning and then at most one TaskCompleted; TaskCompleted
\* never comes without TaskRunning before it.
C4_RunningThenCompleted ==
    \A t \in Tags : emitted[t] \in {<<>>, <<"running">>, <<"running", "completed">>}

C4_Witness == \E t \in Tags : emitted[t] = <<"running", "completed">> /\ unit[t] = "ACK"

\* C5 as stated: once shutdown_complete is set the in-flight set is empty,
\* every dispatched unit is terminal, and every unit that was in flight when
\* issue_shutdown was called has produced its TaskCompleted.
C5_AllInFlightCompleted ==
    wait_for_shutdown_returns =>
        /\ active_tasks = {}
        /\ \A t \in Dispatched : unit[t] \in Terminal
        /\ \A t \in inflight_at_shutdown : completed[t] = "confirmed"

\* C5 amended: once shutdown_complete is set the in-flight set is empty, every
\* dispatched unit is terminal, and every unit that was in flight when
\* issue_shutdown was called ended in ACK with its TaskCompleted confirmed, in
\* REJECT_PERMANENT or in FAIL_DELIVERY.
C5_AllInFlightTerminal ==
    wait_for_shutdown_returns =>
        /\ active_tasks = {}
        /\ \A t \in Dispatched : unit[t] \in Terminal
        /\ \A t \in inflight_at_shutdown :
              \/ unit[t] = "ACK" /\ completed[t] = "confirmed"
              \/ unit[t] = "REJECT_PERMANENT" /\ completed[t] = "none"
              \/ unit[t] = "FAIL_DELIVERY" /\ completed[t] = "failed"

C5_Witness ==
    /\ wait_for_shutdown_returns
    /\ \E t \in inflight_at_shutdown : unit[t] = "ACK"
    /\ \E t \in inflight_at_shutdown : unit[t] # "ACK"

InProgress(t) == unit[t] \notin Terminal \cup {"none"}

\* C7: the step that sets shutdown_requested changes no unit and no
\* background publish; afterwards every unfinished unit still has its next
\* step enabled, and a unit is only ever cancelled by a cancellation of the
\* entrypoint task, never by the shutdown request.
C7_ShutdownCancelsNothing ==
    /\ [][(shutdown_event' /\ ~shutdown_event) => UNCHANGED unitVars]_vars
    /\ [](\A t \in Tags : unit[t] = "CANCELLED" => entry = "cancelled")
    /\ [](\A t \in Tags : (shutdown_event /\ InProgress(t)) => ENABLED UnitNext(t))

C7_Witness ==
    /\ shutdown_event
    /\ \E t \in inflight_at_shutdown : unit[t] = "ACK"
    /\ \E t \in inflight_at_shutdown : unit[t] = "FAIL_DELIVERY"

\* C8: once shutdown was requested on a connected worker and entrypoint has
\* ended (returned or raised on its own), shutdown_complete is set.
C8_ShutdownCompletes ==
    (shutdown_event /\ entry \in {"returned", "raised"}) => shutdown_complete_event

\* C9 as stated: a delivery whose task kind has no handler is nacked with
\* requeue = false and its message is not put back on the worker queue.
C9_NackWithoutRequeue ==
    \A t \in Tags : unit[t] = "REJECT_PERMANENT" =>
        (nack_requeue[t] = "drop" /\ ~Redeliverable(t))

\* C9 amended: a delivery whose task kind has no handler is nacked with the
\* library default requeue = true: it leaves the channel's unacknowledged set
\* and the broker puts its message back on the worker queue.
C9_NackRequeues ==
    \A t \in Tags : unit[t] = "REJECT_PERMANENT" =>
        /\ nack_requeue[t] = "requeue"
        /\ t \notin unacked
        /\ (tag_msg[t] \in queue \/ \E s \in Tags : s > t /\ tag_msg[s] = tag_msg[t])

C9_Witness == \E t \in Tags : unit[t] = "REJECT_PERMANENT" /\ tag_msg[t] \in queue

\* C10: for a delivery whose task kind has no registered handler the worker
\* publishes neither TaskRunning nor TaskCompleted, calls no handler and
\* never acks.
C10_UnregisteredTouchesNothing ==
    \A t \in Dispatched : task_handler(t) = None =>
        /\ emitted[t] = <<>>
        /\ running[t] = "none"
        /\ completed[t] = "none"
        /\ ~handler_invoked[t]
        /\ t \notin acked
        /\ broker_ops \cap {<<t, "publish_running">>, <<t, "publish_completed">>, <<t, "ack">>} = {}

C10_Witness ==
    \E t \in Dispatched : task_handler(t) = None /\ unit[t] = "REJECT_PERMANENT"

\* messages published with a task kind for which no handler is registered
Unroutable == {m \in MsgIds : msg_kind[m] # None /\ registered_tasks[msg_kind[m]] = None}

\* deliveries of message m, in the order the broker handed them out
DeliveriesOf(m) == {t \in Tags : tag_msg[t] = m}

\* C11 as stated: a message whose task kind no worker registered is delivered
\* once, leaves the worker queue for good when it is rejected, and no
\* TaskCompleted is published for it.
C11_QueueDrains ==
    \A m \in Unroutable :
        /\ Cardinality(DeliveriesOf(m)) <= 1
        /\ (\E t \in DeliveriesOf(m) : unit[t] = "REJECT_PERMANENT") => m \notin queue
        /\ CompletedPublishes(m) = 0

\* C11 amended: a message whose task kind no worker registered never leaves
\* the broker: it is ready in the worker queue or held by an unsettled
\* delivery, every delivery of it that the unit handled ended in a requeueing
\* nack, and no TaskCompleted is published for it.
C11_UnroutableLoops ==
    \A m \in Unroutable :
        /\ m \in queue \/ \E t \in unacked : tag_msg[t] = m
        /\ \A t \in DeliveriesOf(m) :
              unit[t] \in {"spawned", "REJECT_PERMANENT", "CANCELLED"}
        /\ CompletedPublishes(m) = 0

C11_Witness ==
    \E m \in Unroutable :
        /\ Cardinality(DeliveriesOf(m)) = 2
        /\ \A t \in DeliveriesOf(m) : unit[t] = "REJECT_PERMANENT"
        /\ m \in queue

\* the step in which unit t hands its TaskCompleted to the broker client
PublishesCompleted(t) == unit[t] = "COMPLETE" /\ unit'[t] = "CONFIRM"

\* bytes that are the UTF-8 JSON object {"type": ..., "message": ...}
IsSerializedException(b) == b.fmt = "json-utf8" /\ b.keys = {"type", "message"}

\* C12: when the handler raised e, the TaskCompleted the unit publishes has
\* is_error = true and output_data = the JSON object {"type": class name of e,
\* "message": str(e)}; every TaskCompleted with is_error = true carries an
\* output_data of that shape; the publish is always attempted, and once it is
\* confirmed the ack of the delivery is the unit's next step.
C12_HandlerExceptionSerialized ==
    /\ [][\A t \in Tags : PublishesCompleted(t) =>
            /\ exception[t] \in HandlerExceptions =>
                  /\ handler_invoked[t]
                  /\ TaskCompletedUpdate(t).is_error
                  /\ IsSerializedException(TaskCompletedUpdate(t).output_data)
                  /\ TaskCompletedUpdate(t).output_data.type = exception[t].cls
                  /\ TaskCompletedUpdate(t).output_data.message = exception[t].msg
            /\ TaskCompletedUpdate(t).is_error =>
                  IsSerializedException(TaskCompletedUpdate(t).output_data)]_vars
    /\ [](\A t \in Tags : (unit[t] = "COMPLETE" /\ exception[t] \in HandlerExceptions)
                              => ENABLED publish_task_completed_send(t))
    /\ [](\A t \in Tags : (unit[t] = "ACKING" /\ is_error[t]) => ENABLED ack(t))

C12_Witness ==
    \E t, s \in Tags :
        /\ unit[t] = "COMPLETE"
        /\ exception[t] \in HandlerExceptions
        /\ output_data[t] = json_dumps([type |-> exception[t].cls, message |-> exception[t].msg])
        /\ unit[s] = "ACKING"
        /\ is_error[s]
        /\ completed[s] = "confirmed"

\* C13: when the input decoder failed, the task function has not been called,
\* and the unit is about to publish a TaskCompleted with is_error = true whose
\* output_data is the serialized decoding error.
C13_DecodeErrorSkipsHandler ==
    \A t \in Tags : exception[t] = DecodeError =>
        /\ ~handler_invoked[t]
        /\ unit[t] = "COMPLETE"
        /\ TaskCompletedUpdate(t).is_error
        /\ IsSerializedException(TaskCompletedUpdate(t).output_data)
        /\ ENABLED publish_task_completed_send(t)

C13_Witness ==
    \E t \in Tags : exception[t] = DecodeError /\ unit[t] = "COMPLETE" /\ is_error[t]

\* C14: while no connect attempt has succeeded, entrypoint has neither
\* returned nor raised and is not in the dispatch loop or in _cleanup; after a
\* failed attempt both another failure and a success remain possible.
C14_ConnectRetriedForever ==
    /\ connection = "none" => entry \in {"idle", "connect", "cancelled"}
    /\ entry \in {"check", "pull"} => connection = "open"
    /\ entry = "connect" =>
          /\ ENABLED init_broker_client(FALSE)
          /\ ENABLED init_broker_client(TRUE)

C14_Witness == entry = "connect" /\ connection = "none" /\ queue # {}

\* the kind / the task function of the register_task call just made
Called == register_call'.kind
CalledTask == register_call'.task

InfersUnsupported ==
    \/ /\ register_call.input_decoder = None
       /\ register_call.task.in \in Types \ {"bytes", "str", "dict", "Dict[str, Any]", "MyModel"}
    \/ /\ register_call.output_encoder = None
       /\ ResolveDecoder(register_call.task, register_call.input_decoder).error = None
       /\ register_call.task.out \in Types \ {"bytes", "str", "dict", "Dict[str, Any]", "MyModel"}

\* C16: a register_task call that infers a codec for an unsupported type is
\* rejected with the codec error (EncodingError), and every handler in the
\* registry has both its decoder and its encoder.
C16_UnsupportedTypeRejected ==
    /\ (register_call # NoCall /\ InfersUnsupported) => register_error = "EncodingError"
    /\ \A k \in Kinds : registered_tasks[k] # None =>
          /\ handler_codecs[k].input_decoder # None
          /\ handler_codecs[k].output_encoder # None

\* the register_task call just made left a codec to be inferred from a
\* missing annotation
InfersFromMissingHint ==
    \/ register_call'.input_decoder = None /\ CalledTask.in = NoHint
    \/ register_call'.output_encoder = None /\ CalledTask.out = NoHint

\* C17: a register_task call that has to infer a codec from a missing
\* annotation raises and leaves the whole registry, the entry of its own kind
\* included, as it was.
C17_MissingHintRegistersNothing ==
    [][InfersFromMissingHint =>
          /\ register_error' # None
          /\ registered_tasks' = registered_tasks
          /\ handler_codecs' = handler_codecs]_vars

\* a call for an already registered kind failed on a missing return
\* annotation after its decoder had been resolved; the earlier entry stands
C17_Witness ==
    /\ register_call.task.name = "h6"
    /\ register_call.output_encoder = None
    /\ register_error = "ValueError"
    /\ registered_tasks[register_call.kind] = "h1"

\* the step in which the broker hands message m to the worker
Delivers(m) == m \in queue /\ \E t \in Tags : tag_msg[t] = 0 /\ tag_msg'[t] = m

C19_LoopDoesNotAwaitUnits ==
    /\ [][\A t \in Tags : (unit[t] = "none" /\ unit'[t] = "spawned") =>
             /\ entry' = "check"
             /\ \A u \in Tags \ {t} : unit'[u] = unit[u]]_vars
    /\ [](entry = "check" => ENABLED listen_check)
    /\ [](\A m \in queue :
             (entry = "pull" /\ connection = "open" /\ PrefetchAllows /\ NextTag # 0
                 /\ HighestPriorityWaiting(m)) => ENABLED listen_dispatch(m))

\* as many handlers as the prefetch count run at the same time while the loop
\* is pulling
C19_Witness ==
    /\ prefetch_count >= 2
    /\ entry = "pull"
    /\ Cardinality({t \in Tags : unit[t] = "RUN" /\ running[t] = "done"}) = prefetch_count

\* queues declared by the clients, and what each holds
QueueNames == {b[1] : b \in Bindings}
Contents(q) ==
    CASE q = WorkerKind -> queue \cup {tag_msg[t] : t \in Tags}
      [] q = RelayQueueName -> relay_queue
      [] q = ClonedQueueName -> cloned_queue

\* queues message m was enqueued in
EnqueuedIn(m) == {q \in QueueNames : m \in Contents(q)}

\* C20: every published assignment was enqueued in the worker queue and in
\* relay_queue, and in no other queue.
C20_TwoQueues ==
    \A m \in MsgIds : msg_kind[m] # None => EnqueuedIn(m) = {WorkerKind, RelayQueueName}

\* C21: a message published by publish_task_result is enqueued in the relay
\* queue only: never in the worker queue of any kind (nor in its clone), so no
\* worker receives a lifecycle event as an assignment.
C21_ResultsToRelayOnly == result_queues \subseteq {RelayQueueName}

C21_Witness ==
    /\ call.op = "publish_task_result" /\ call.error = None
    /\ result_queues = {RelayQueueName}

\* C22: purge_worker_queue on a client with test_mode = false raises, sends no
\* broker operation (no queue declaration, no purge) and leaves the contents
\* of every queue as they were.
C22_PurgeRefusedOutsideTestMode ==
    [][(call'.op = "purge_worker_queue" /\ ~test_mode)
         => /\ call'.error = "RuntimeError"
            /\ call'.sent = {}
            /\ UNCHANGED <<queue, relay_queue, cloned_queue>>]_vars

C22_Witness ==
    /\ call = ClientCall("purge_worker_queue", "RuntimeError", {})
    /\ ~test_mode /\ client_connection = "open" /\ queue # {}

\* operations of a broker client other than connect and disconnect
ClientOperations == {"publish_task", "_declare_worker_queue", "purge_worker_queue",
                     "listen", "publish_task_result"}

\* C23: once disconnect() has closed the connection, every operation on the
\* client fails with NotConnectedError and sends nothing to the broker; and
\* disconnect() on a client that never connected fails with NotConnectedError.
C23_NotConnectedAfterDisconnect ==
    /\ (client_connection = "closed" /\ call.op \in ClientOperations)
         => (call.error = "NotConnectedError" /\ call.sent = {})
    /\ (client_connection = None /\ call.op = "disconnect")
         => call.error = "NotConnectedError"

\* the status of the response RetryClient handed to the last call
FinalStatus == relay_call.seen[Len(relay_call.seen)]

\* the retry half of C24: every response before the one handed over had a
\* retryable status, and a retryable status is handed over only on the last
\* attempt, where it raises and never yields None
RetriedUpToAttempts ==
    /\ Len(relay_call.seen) \in 1..Attempts
    /\ \A i \in 1..(Len(relay_call.seen) - 1) : relay_call.seen[i] \in RetryStatuses
    /\ (FinalStatus \in RetryStatuses)
         => (Len(relay_call.seen) = Attempts /\ relay_call.result = "ClientResponseError")

\* C24 as stated: get_task returns the task on a final 200, None exactly on a
\* final 404, raises for every other final status, and retries a retryable
\* status up to `attempts` times before it raises.
C24_RaisesUnless200Or404 ==
    relay_call.op = "get_task" =>
        /\ (FinalStatus = 200) => (relay_call.result = "Task")
        /\ (relay_call.result = "None") <=> (FinalStatus = 404)
        /\ (FinalStatus \notin {200, 404}) => (relay_call.result = "ClientResponseError")
        /\ RetriedUpToAttempts

\* C24 amended: get_task returns the task parsed from the body on every final
\* status below 400 (200 among them), None exactly on a final 404, raises
\* ClientResponseError on every other final status from 400 up, and retries a
\* retryable status up to `attempts` times before it raises.
C24_GetTaskByFinalStatus ==
    relay_call.op = "get_task" =>
        /\ (FinalStatus < 400) => (relay_call.result = "Task")
        /\ (relay_call.result = "None") <=> (FinalStatus = 404)
        /\ (FinalStatus >= 400 /\ FinalStatus # 404) => relay_call.result = "ClientResponseError"
        /\ RetriedUpToAttempts

C24_Witness ==
    /\ relay_call.op = "get_task"
    /\ relay_call.seen = <<500, 503, 500>>
    /\ relay_call.result = "ClientResponseError"

OpenSessions == {i \in SessionIds : sessions[i] = "open"}

\* C25: a RelayClient holds at most one open session, the one in _session;
\* connect with a session creates none; disconnect closes and clears it and
\* does nothing without one, so that no session stays open after it; get_task
\* and check_health without a session open a fresh one.
C25_SingleSession ==
    /\ [](/\ Cardinality(OpenSessions) <= 1
          /\ \A i \in OpenSessions : i = relay_session
          /\ (relay_session # 0) => (relay_session \in OpenSessions))
    /\ [][((relay_call'.op = "connect" /\ relay_session # 0)
               => UNCHANGED <<relay_session, sessions>>)
          /\ ((relay_call'.op = "disconnect")
               => (/\ relay_session' = 0
                   /\ \A i \in SessionIds : sessions'[i] # "open"
                   /\ (relay_session = 0) => UNCHANGED sessions))
          /\ ((relay_call'.op \in {"get_task", "check_health"} /\ relay_session = 0)
               => (/\ relay_session' # 0
                   /\ sessions[relay_session'] = "unborn"
                   /\ sessions'[relay_session'] = "open"))]_vars

C25_Witness ==
    /\ relay_call.op = "get_task"
    /\ sessions[1] = "closed"
    /\ sessions[2] = "open"
    /\ relay_session = 2

\* C26: a SIGTERM or SIGINT received while the runtime is running leads to
\* issue_shutdown on it: when startup has finished after such a signal, the
\* runtime's _shutdown_event is set.
C26_SignalIssuesShutdown ==
    (runner \in {"returned", "raised"} /\ \E sig \in Signals : received[sig] \in RunningPositions)
        => shutdown_event

\* C27: in reload mode, a change reported by the file watcher while the
\* runtime is running leads to issue_shutdown on that runtime (and from there
\* to shutdown_complete, the re-import and the restart).
C27_ChangeRestartsRuntime ==
    (reload /\ reload_task = "True" /\ app_task = "created" /\ entry \in RunningPositions
        /\ runner = "wait" /\ ~runner_shutdown_event)
      ~> (shutdown_event \/ runner # "wait" \/ runner_shutdown_event \/ AppTaskDone)

\* C28: with retry_until_complete false PublisherClient.get_task makes exactly
\* one relay query and returns what that query returned, a task in any status
\* or None; with retry_until_complete true it returns only a task whose
\* has_finished is true, never None and never an unfinished task.
C28_GetTaskPolling ==
    /\ (~retry_until_complete) => (polls <= 1)
    /\ (poll = "returned" /\ ~retry_until_complete) =>
           (/\ polls = 1
            /\ relay_call.op = "get_task"
            /\ (polled_task = "None") <=> (relay_call.result = "None")
            /\ (polled_task \in TaskStatuses) <=> (relay_call.result = "Task"))
    /\ (poll = "returned" /\ retry_until_complete) =>
           (polled_task \in TaskStatuses /\ has_finished(polled_task))

\* a polling call that returned the finished task after earlier queries that
\* found nothing or an unfinished task
C28_Witness ==
    /\ retry_until_complete
    /\ poll = "returned"
    /\ polls = MaxPolls
    /\ polled_task = "COMPLETED"

\* a value made only of what JSON can write and read back as the same
\* Python object: str, int, lists of such and dicts of such with str keys
RECURSIVE JsonFaithful(_)
JsonFaithful(x) ==
    CASE x.k \in {"str", "int"} -> TRUE
      [] x.k = "list" -> \A i \in 1..Len(x.v) : JsonFaithful(x.v[i])
      [] x.k = "dict" ->
            \A i \in 1..Len(x.v) : x.v[i][1].k = "str" /\ JsonFaithful(x.v[i][2])
      [] OTHER -> FALSE

\* original_data is a value the codec in use can carry: any bytes, a str
\* without lone surrogates, a dict JSON can hold, a MyModel
InCodecDomain ==
    CASE codec_pair.encoder = "PassthroughEncoder" -> TRUE
      [] codec_pair.encoder = "StringEncoder" ->
            \A i \in 1..Len(original_data.v) : ~IsSurrogate(original_data.v[i])
      [] codec_pair.encoder = "JsonDictEncoder" -> JsonFaithful(original_data)
      [] codec_pair.encoder = "PydanticEncoder" -> TRUE
      [] OTHER -> FALSE

UnitsQuiet == \A t \in Tags : ~InProgress(t) /\ running[t] # "pending"

C31_FailedPublishLeavesUnacked ==
    /\ [](\A t \in Tags : (unit[t] = "FAIL_DELIVERY") =>
              (/\ completed[t] = "failed"
               /\ t \notin acked
               /\ nack_requeue[t] = "none"
               /\ <<t, "ack">> \notin broker_ops
               /\ <<t, "nack">> \notin broker_ops
               /\ t \notin active_tasks
               /\ (connection = "open") => (t \in unacked)))
    /\ [][\A t \in Tags : (unit[t] = "CONFIRM" /\ unit'[t] = "FAIL_DELIVERY") =>
              (/\ t \in unacked'
               /\ t \notin active_tasks'
               /\ broker_ops' = broker_ops)]_vars

\* a unit whose TaskCompleted publish failed while the connection is open
C31_Witness ==
    \E t \in Tags :
        /\ unit[t] = "FAIL_DELIVERY"
        /\ connection = "open"
        /\ t \in unacked
        /\ handler_invoked[t] = FALSE
        /\ <<t, "publish_completed">> \in broker_ops

\* C32: once the pull of the dispatch loop raised an error other than the
\* timeout, nothing more is dispatched, and when entrypoint has raised,
\* cleanup has run to its end: no unit is left in flight, the disconnect step
\* was taken and shutdown_complete is set.
C32_ListenErrorRunsCleanup ==
    /\ [](listen_error => entry \in {"gather", "disconnect", "raised", "cancelled"})
    /\ [][listen_error => \A t \in Tags : (unit[t] = "none") => (unit'[t] = "none")]_vars
    /\ []((listen_error /\ entry = "raised") =>
              (/\ \A t \in Dispatched : unit[t] \in Terminal
               /\ shutdown_complete_event))

C37_OneConnection ==
    /\ amqp.connections <= 1
    /\ \A n \in 1..amqp.connections : n = pbc.connection

Resolutions(t) == {op \in {"ack", "nack"} : <<t, op>> \in broker_ops}

\* C34: a delivery tag is given to one unit only (a tag is handed out once and
\* the unit of a tag never starts again), the delivery is acked or nacked only
\* by a step of that unit, which is its last, while the delivery is still
\* unacknowledged, and no delivery is both acked and nacked.
C34_AckHandleResolvedOnce ==
    /\ [](\A t \in Tags : Cardinality(Resolutions(t)) <= 1)
    /\ [](\A t \in Tags : (Resolutions(t) # {}) =>
              (unit[t] \in {"ACK", "REJECT_PERMANENT"} /\ t \notin active_tasks))
    /\ [](\A t \in Tags : (t \in acked) <=> (<<t, "ack">> \in broker_ops))
    /\ [][\A t \in Tags :
              /\ (unit[t] = "none" /\ unit'[t] # "none") =>
                     (tag_msg[t] = 0 /\ tag_msg'[t] # 0 /\ unit'[t] = "spawned"
                         /\ Resolutions(t) = {})
              /\ (unit[t] # "none") => (unit'[t] # "none" /\ tag_msg'[t] = tag_msg[t])
              /\ (unit[t] \in Terminal) => (unit'[t] = unit[t])
              /\ (Resolutions(t)' # Resolutions(t)) =>
                     (/\ Resolutions(t) = {}
                      /\ InProgress(t)
                      /\ unit'[t] \in {"ACK", "REJECT_PERMANENT"}
                      /\ t \in unacked
                      /\ t \notin unacked')]_vars

\* one delivery was acked and another nacked, each once
C34_Witness ==
    \E s, t \in Tags :
        /\ Resolutions(s) = {"ack"}
        /\ Resolutions(t) = {"nack"}
        /\ unit[s] = "ACK"
        /\ unit[t] = "REJECT_PERMANENT"

\* units dispatched after shutdown was requested and not yet done: a unit
\* in progress at the request is in inflight_at_shutdown
DispatchedAfterRequest ==
    {t \in Tags : shutdown_event /\ InProgress(t) /\ t \notin inflight_at_shutdown}

\* C35: once shutdown is requested the loop does not start another pull, so at
\* most one delivery (that of the pull in progress) is dispatched afterwards;
\* a pull that times out dispatches nothing and leaves the in-flight set as it
\* was; and when cleanup is over no unit dispatched after the request is still
\* running.
C35_AtMostOneDispatchAfterRequest ==
    /\ [][(shutdown_event /\ entry # "pull") => (entry' # "pull")]_vars
    /\ [][\A t \in Tags : (shutdown_event /\ unit[t] = "none" /\ unit'[t] # "none") =>
              (entry = "pull" /\ entry' = "check")]_vars
    /\ [](Cardinality(DispatchedAfterRequest) <= 1)
    /\ [][(entry = "pull" /\ entry' = "check" /\ queue' = queue) =>
              (UNCHANGED <<unit, active_tasks>>)]_vars
    /\ [](entry \in {"disconnect", "returned", "raised"} => DispatchedAfterRequest = {})

\* the loop waits in a pull, shutdown is not requested, an assignment waits
\* in the queue and fewer units are in flight than the prefetch count
DeliveryDue ==
    /\ ~shutdown_event
    /\ entry = "pull"
    /\ connection = "open"
    /\ queue # {}
    /\ NextTag # 0
    /\ Cardinality(active_tasks) < prefetch_count

\* C36: a unit that ended in FAIL_DELIVERY is not in the in-flight set; the
\* step in which it fails changes neither the dispatch loop, nor the shutdown
\* flags, nor any other unit; and afterwards, as before, a waiting assignment
\* is dispatched whenever the loop pulls with fewer units in flight than the
\* prefetch count.
C36_FailedUnitLeavesLoopRunning ==
    /\ [](\A t \in Tags : (unit[t] = "FAIL_DELIVERY") => (t \notin active_tasks))
    /\ [][\A t \in Tags : (unit[t] # "FAIL_DELIVERY" /\ unit'[t] = "FAIL_DELIVERY") =>
              (/\ UNCHANGED <<entry, listen_error, gathered, connection, flagVars, queue>>
               /\ active_tasks' = active_tasks \ {t}
               /\ \A s \in Tags \ {t} : unit'[s] = unit[s])]_vars
    /\ [](DeliveryDue => ENABLED (\E m \in MsgIds : listen_dispatch(m)))

\* cleanup was started by a cancellation of the entrypoint task in the
\* dispatch loop: the loop leaves the pull for cleanup with no shutdown
\* request and no error of the pull
CleanupAfterCancel == ~shutdown_event /\ ~listen_error

\* C38: a cancellation that reaches the entrypoint task in the pull of the
\* dispatch loop starts cleanup over the units then in flight and cancels
\* none of them; unless the task is cancelled again, cleanup leaves gather
\* only for disconnect, with every awaited unit done, and leaves disconnect
\* only with shutdown_complete set and entrypoint returned.
C38_CancelInLoopAbsorbed ==
    /\ [][(~listen_error' /\ entry = "pull" /\ entry' \notin {"pull", "check"}) =>
              (/\ entry' = "gather"
               /\ gathered' = active_tasks
               /\ UNCHANGED <<unitVars, connection, flagVars>>)]_vars
    /\ [][(CleanupAfterCancel /\ entry = "disconnect" /\ entry' \notin {"disconnect", "cancelled"}) =>
              (entry' = "returned" /\ shutdown_complete_event')]_vars
    /\ [][(CleanupAfterCancel /\ entry = "gather" /\ entry' \notin {"gather", "cancelled"}) =>
              (entry' = "disconnect" /\ \A t \in gathered : unit[t] \in Terminal)]_vars

C40_DisconnectErrorSwallowed ==
    /\ [][(entry = "disconnect" /\ entry' \notin {"disconnect", "cancelled"}
              /\ connection' # "closed") =>
              (/\ shutdown_complete_event'
               /\ wait_for_shutdown_returns'
               /\ entry' = IF listen_error THEN "raised" ELSE "returned"
               /\ UNCHANGED <<connection, unacked, queue, unitVars>>)]_vars
    /\ []((entry = "returned") => wait_for_shutdown_returns)

\* entrypoint has returned after a disconnect that raised: the connection is
\* still open and shutdown_complete is set
C40_Witness ==
    /\ entry = "returned"
    /\ connection = "open"
    /\ shutdown_complete_event
    /\ wait_for_shutdown_returns

====
